---- MODULE Spec2Model ----
(***************************************************************************)
(* Transfer / ledger consistency subsystem of the bank backend.           *)
(*                                                                         *)
(* Every HTTP request is an async handler: the code between two awaits    *)
(* runs atomically on the single event-loop thread, and every database    *)
(* operation is atomic on its document.  A request is therefore a process *)
(* whose steps are its database operations, each together with the        *)
(* synchronous code that follows it; steps of different requests          *)
(* interleave freely.                                                      *)
(***************************************************************************)
EXTENDS Integers, FiniteSets, Sequences, TLC

\* ------------------------------------------------------------------ bounds
Procs == {"p1", "p2"}          \* request slots: at most two requests in flight
MaxNow == 600001               \* the clock stops here
MaxInitBalance == 2            \* largest opening balance
MaxAmount == 1                 \* largest requested amount
MaxTransfers == 2              \* transfers recorded per behaviour
MaxPayments == 1               \* bill payments recorded per behaviour
MaxCredits == 1                \* admin credits recorded per behaviour
MaxBackdates == 2              \* date changes recorded per behaviour

\* ------------------------------------------------------- program constants
OtpTtl == 600000               \* 10 * 60 * 1000 ms

Users == {"u1", "u2"}
Clients == {"u1"}              \* the user whose requests are followed
Codes == {"100000"}            \* the code generateOtp draws
\* what a client submits as the code: the one drawn, another, or nothing
Guesses == Codes \cup {"999999", "none"}
AccountNumberOf == [u \in Users |-> IF u = "u1" THEN "ACC1" ELSE "ACC2"]
CurrencyOf == [u \in Users |-> IF u = "u1" THEN "EUR" ELSE "USD"]
AccountNumbers == {AccountNumberOf[u] : u \in Users}
\* destination, transfer type and international details of a transfer request
TransferShapes ==
  {[toAccount |-> "ACC2", transferType |-> "internal", intlFields |-> FALSE],
   [toAccount |-> "EXT9", transferType |-> "internal", intlFields |-> FALSE],
   [toAccount |-> "EXT9", transferType |-> "domestic", intlFields |-> FALSE],
   [toAccount |-> "EXT9", transferType |-> "international", intlFields |-> TRUE],
   [toAccount |-> "EXT9", transferType |-> "international", intlFields |-> FALSE],
   [toAccount |-> "none", transferType |-> "domestic", intlFields |-> FALSE]}
Amounts == 1..MaxAmount
BadAmounts == {-1, 0}                    \* negative; zero or missing
\* the requests followed: every well-formed one, and one for each way of
\* being malformed
TransferInputs ==
  {[shape |-> sh, amount |-> a] : sh \in TransferShapes, a \in Amounts}
  \cup {[shape |-> [toAccount |-> "ACC2", transferType |-> "internal",
                    intlFields |-> FALSE], amount |-> a] : a \in BadAmounts}
CreditInputs == {-1, 0, 1}               \* admin credit takes any number
Billers == {"1", "2", "3", "4", "5"}
BillerIds == {"1", "9", "none"}          \* in the catalog, unknown, missing
BillInputs ==
  {[billerId |-> "1", amount |-> a] : a \in Amounts \cup BadAmounts}
  \cup {[billerId |-> b, amount |-> 1] : b \in BillerIds}
\* client-supplied bill references: a 24-digit hex string, or none
ClientRefs == {<<"HEX", 1>>, <<"none", 0>>}
\* how far the clock moves in one step: to the last millisecond of a
\* challenge's lifetime, or past it
TickSteps == {OtpTtl, OtpTtl + 1}

NoRef == <<"none", 0>>
NoDate == -1                   \* an optional Date path that is not set
InvalidDate == -2              \* new Date(s) of a string that is no date
Admins == {"a1"}
\* the dates an admin asks for: the start of the clock and a later one
BackdateDates == {0, OtpTtl}
\* a stored challenge; used records that a verification of it has succeeded
NoOtp == [hash |-> "none", expires |-> 0, used |-> FALSE]
NoSummary == [present |-> FALSE, currentBalance |-> 0, availableBalance |-> 0,
              totalDeposits |-> 0, totalWithdrawals |-> 0, netChange |-> 0,
              currency |-> "USD", lastTransactionDate |-> 0]

VARIABLES
  now,               \* Date.now()
  balance,           \* User.accounts[0].balance, per user
  transferOtp,       \* User.transferOtp / transferOtpExpires, per user
  otpStore,          \* globalThis.otpStore, per user
  bankTransactions,  \* BankTransaction collection
  receipts,          \* Receipt collection
  accountSummary,    \* AccountSummary collection, one row per (user, account)
  deletedTransactions, \* DeletedTransaction collection
  users,             \* _ids of the User collection
  profile,           \* User.status, transferPinSet and transferPin, per user
  req,               \* the request each slot is serving
  response           \* the response sent by the latest step, if it sent one

vars == <<now, balance, transferOtp, otpStore, bankTransactions, receipts,
          accountSummary, deletedTransactions, users, profile, req,
          response>>

\* the four collections of the ledger
ledger == <<balance, bankTransactions, receipts, accountSummary>>

\* ----------------------------------------------------------------- helpers
\* bcrypt.compare(plain, hash): true exactly for the hashed plaintext
BcryptCompare(plain, hash) == hash = plain

\* the challenge an initiate stores at this moment
Challenge(code) == [hash |-> code, expires |-> now + OtpTtl, used |-> FALSE]

\* Receipt.transactionId is an ObjectId path: a string casts only when it is
\* a 24-digit hex string; the result is an id no create() has handed out
CastsToObjectId(ref) == ref[1] = "HEX"
ObjectIdOf(ref) == <<"cast", ref[1], ref[2], 0>>

\* The _id of a new BankTransaction.  References are unique among the live
\* transactions, so naming the fresh ObjectId after the reference and the
\* number of archived transactions that held it keeps ids unique; it is
\* never the ObjectId a reference string casts to.
NewId(ref) ==
  <<"_id", ref[1], ref[2],
    Cardinality({d \in deletedTransactions : d.reference = ref})>>

\* what a request may carry as transactionId besides the id of a stored
\* transaction: nothing, a string that is no ObjectId, a well-formed id of
\* no transaction
NoId == <<"none", "none", 0, 0>>
MalformedId == <<"text", "none", 0, 0>>
UnknownId == <<"_id", "none", 0, 0>>

\* no document
NoDoc == [id |-> NoId, userId |-> "none", accountNumber |-> "none",
          amount |-> 0, type |-> "none", balanceAfter |-> 0,
          reference |-> NoRef, status |-> "none", currency |-> "none",
          createdAt |-> NoDate, originalDate |-> NoDate,
          lastModifiedBy |-> "none", modificationHistory |-> <<>>]

\* no transfer details
NoShape == [toAccount |-> "none", transferType |-> "none",
            intlFields |-> FALSE]

\* the result of the monthly aggregation when no transaction matched
NoStats == [matched |-> FALSE, totalDeposits |-> 0, totalWithdrawals |-> 0]

\* A request slot: where the handler stands and the request fields and
\* locals it still uses.  code is the otp field of the request body, otp the
\* challenge the request verified, transactionId and createdAt the _id and
\* the date of the transaction the request created, admin the acting
\* administrator, doc and hasReceipt what an admin request's session read
\* (the transaction, and whether a Receipt was linked to its _id), written
\* the balance its own write left, alone whether no other request has been
\* in flight since it began, stats what a summary read aggregated, pin and
\* shape the PIN and the transfer details of an initiate.
Idle == [pc |-> "idle", kind |-> "none", user |-> "none", amount |-> 0,
         billerId |-> "none", clientRef |-> NoRef, newBalance |-> 0,
         code |-> "none", otp |-> NoOtp, reference |-> NoRef,
         transactionId |-> NoId, createdAt |-> 0, admin |-> "none",
         newDate |-> NoDate, doc |-> NoDoc, hasReceipt |-> FALSE,
         alone |-> TRUE, written |-> 0, stats |-> NoStats,
         pin |-> "none", shape |-> NoShape]

NoResponse == [kind |-> "none", user |-> "none", resp |-> "none",
               amount |-> 0, newBalance |-> 0, reference |-> NoRef,
               code |-> "none", otp |-> NoOtp, admin |-> "none",
               newDate |-> NoDate, doc |-> NoDoc, alone |-> TRUE,
               written |-> 0]

Answer(kind, u, resp) ==
  [NoResponse EXCEPT !.kind = kind, !.user = u, !.resp = resp]

\* res.json({success: true, newBalance, reference, ...})
Success(r) ==
  [kind |-> r.kind, user |-> r.user, resp |-> "success", amount |-> r.amount,
   newBalance |-> r.newBalance, reference |-> r.reference, code |-> r.code,
   otp |-> r.otp, admin |-> r.admin, newDate |-> r.newDate, doc |-> r.doc,
   alone |-> r.alone, written |-> r.written]

\* a failure after the OTP matched, or after an admin request's first read
Failure(r, resp) ==
  [Answer(r.kind, r.user, resp) EXCEPT !.code = r.code,
                                       !.otp = r.otp,
                                       !.reference = r.reference,
                                       !.admin = r.admin,
                                       !.newDate = r.newDate,
                                       !.doc = r.doc]

\* slot p takes up request r: every request in flight is no longer alone
Begin(p, r) ==
  [q \in Procs |->
     IF q = p
       THEN [r EXCEPT !.alone = \A o \in Procs \ {p} : req[o].pc = "idle"]
     ELSE IF req[q].pc = "idle" THEN req[q]
     ELSE [req[q] EXCEPT !.alone = FALSE]]

\* a request answered in its first step overlapped the others all the same
Overlap(p) ==
  [q \in Procs |->
     IF q = p \/ req[q].pc = "idle" THEN req[q]
     ELSE [req[q] EXCEPT !.alone = FALSE]]

Finish(p) == [req EXCEPT ![p] = Idle]

\* A new request takes the first free slot, once the response of the
\* latest step has been delivered.
Free(p) ==
  /\ response = NoResponse
  /\ req[p].pc = "idle"
  /\ \A q \in Procs : req[q].pc = "idle" => q = p \/ p = "p1"

\* slot p is at step pc of a request of this kind
At(p, kind, pc) ==
  /\ response = NoResponse
  /\ req[p].kind = kind
  /\ req[p].pc = pc

\* transactions of a type recorded since the start, live or archived, and
\* requests in flight that have yet to create theirs
Recorded(type) ==
  {t.id : t \in {x \in bankTransactions :
                   x.type = type /\ x.reference[2] >= 0}}
    \cup {d.id : d \in {x \in deletedTransactions :
                          x.type = type /\ x.reference[2] >= 0}}
Creating(kind) ==
  {q \in Procs : req[q].kind = kind /\ req[q].pc \in {"read", "inc", "create"}}
MayRecord(kind, type, max) ==
  Cardinality(Recorded(type)) + Cardinality(Creating(kind)) < max

\* the index without its unique constraint
ReferenceNeverTaken(ref) == FALSE

\* unique index on BankTransaction.reference
ReferenceTaken(ref) == \E t \in bankTransactions : t.reference = ref

\* The pre('save') hook of BankTransaction.  A backdate (createdAt modified on
\* a stored document) appends an entry whose from and to are both read from
\* the document being saved, that is, after the route has set createdAt; a
\* new document gets its originalDate.
PreSave(t, isNew, createdAtModified) ==
  LET tracked ==
        IF createdAtModified /\ ~isNew
          THEN [t EXCEPT !.modificationHistory =
                  Append(@, [changedBy |-> IF t.lastModifiedBy # "none"
                                             THEN t.lastModifiedBy
                                           ELSE t.userId,
                             from |-> t.createdAt,
                             to |-> t.createdAt])]
        ELSE t
  IN IF isNew /\ tracked.originalDate = NoDate
       THEN [tracked EXCEPT !.originalDate = tracked.createdAt]
     ELSE tracked

\* BankTransaction.create: the schema defaults, then the save hook
NewTransaction(u, amt, type, balAfter, ref, cur) ==
  PreSave([id |-> NewId(ref), userId |-> u,
           accountNumber |-> AccountNumberOf[u],
           amount |-> amt, type |-> type, balanceAfter |-> balAfter,
           reference |-> ref, status |-> "completed", currency |-> cur,
           createdAt |-> now, originalDate |-> NoDate,
           lastModifiedBy |-> "none", modificationHistory |-> <<>>],
          TRUE, FALSE)

NewReceipt(tid, u, amt, type, balAfter, ref, cur, date) ==
  [transactionId |-> tid, userId |-> u,
   accountNumber |-> AccountNumberOf[u], amount |-> amt, type |-> type,
   balanceAfter |-> balAfter, reference |-> ref, status |-> "completed",
   currency |-> cur, transactionDate |-> date]

\* AccountSummary.findOneAndUpdate({upsert: true}) with the outflow $inc
SummaryDebit(s, amt, cur) ==
  [s EXCEPT !.present = TRUE,
            !.currentBalance = @ - amt,
            !.availableBalance = @ - amt,
            !.totalWithdrawals = @ + amt,
            !.netChange = @ - amt,
            !.currency = cur,
            !.lastTransactionDate = now]

\* the inflow $inc of the admin credit
SummaryCredit(s, amt) ==
  [s EXCEPT !.present = TRUE,
            !.currentBalance = @ + amt,
            !.availableBalance = @ + amt,
            !.totalDeposits = @ + amt,
            !.netChange = @ + amt,
            !.lastTransactionDate = now]

\* the fields of a User document that registration sets and that the
\* routes here read: status, and the transfer PIN, which is not set
\* issuedFor is no field of the document: it records the transfer details of
\* the initiate that stored the pending challenge, where the request is
\* followed with them
NoIssue == [shape |-> NoShape, amount |-> 0]
NewProfile == [status |-> "active", transferPinSet |-> FALSE,
               transferPin |-> "none", issuedFor |-> NoIssue]

\* ------------------------------------------------------------------- Init
\* u1 is either freshly registered (balance 0, no summary) or has been
\* funded by one admin credit; u2 is freshly registered.
OpeningCredit(b) ==
  [id |-> NewId(<<"ADMIN-CREDIT", -1>>), userId |-> "u1",
   accountNumber |-> "ACC1", amount |-> b,
   type |-> "deposit", balanceAfter |-> b,
   reference |-> <<"ADMIN-CREDIT", -1>>, status |-> "completed",
   currency |-> "USD", createdAt |-> 0, originalDate |-> 0,
   lastModifiedBy |-> "none", modificationHistory |-> <<>>]

Init ==
  /\ now = 0
  /\ deletedTransactions = {}
  /\ users = Users
  /\ profile = [u \in Users |-> NewProfile]
  /\ \E b \in 0..MaxInitBalance :
       /\ balance = [u \in Users |-> IF u = "u1" THEN b ELSE 0]
       /\ accountSummary =
            [u \in Users |-> IF u = "u1" /\ b > 0
                             THEN SummaryCredit(NoSummary, b) ELSE NoSummary]
       /\ bankTransactions = IF b > 0 THEN {OpeningCredit(b)} ELSE {}
  /\ receipts = {}
  /\ transferOtp = [u \in Users |-> NoOtp]
  /\ otpStore = [u \in Users |-> NoOtp]
  /\ req = [p \in Procs |-> Idle]
  /\ response = NoResponse

\* ------------------------------------------------------------------ clock
Tick ==
  /\ response = NoResponse
  /\ \E d \in TickSteps : now + d <= MaxNow /\ now' = now + d
  /\ response' = NoResponse
  /\ UNCHANGED <<profile, users, deletedTransactions, balance, transferOtp, otpStore, bankTransactions, receipts,
                 accountSummary, req>>

\* the response of the latest step reaches its client
Deliver ==
  /\ response # NoResponse
  /\ response' = NoResponse
  /\ UNCHANGED <<profile, users, deletedTransactions, now, balance, transferOtp, otpStore, bankTransactions,
                 receipts, accountSummary, req>>

\* ------------------------------------------- transfer: POST /initiate
\* The reads and checks of the handler after the PIN block.  The account
\* list and the recipient accounts are not written by any request here, so
\* the reads act as one read of the sender's document.
InitiateChecks(u, shape, amount) ==
  IF shape.toAccount = "none" \/ amount = 0 THEN "InvalidInput"
  ELSE IF shape.transferType = "international" /\ ~shape.intlFields
    THEN "InvalidInput"
  ELSE IF amount <= 0 THEN "InvalidAmount"
  ELSE IF balance[u] < amount THEN "InsufficientFunds"
  ELSE IF shape.transferType = "internal"
          /\ shape.toAccount \notin AccountNumbers THEN "RecipientNotFound"
  ELSE "pass"

InitiateRead(p, u, shape, amount) ==
  /\ Free(p)
  /\ LET outcome == InitiateChecks(u, shape, amount)
     IN IF outcome = "pass"
          THEN /\ req' = Begin(p, [Idle EXCEPT !.pc = "otpSave",
                                               !.kind = "initiate",
                                               !.user = u])
               /\ response' = NoResponse
          ELSE /\ req' = Overlap(p)
               /\ response' = Answer("initiate", u, outcome)
  /\ UNCHANGED <<profile, users, deletedTransactions, now, balance, transferOtp, otpStore, bankTransactions,
                 receipts, accountSummary>>

\* an initiate that leaves a pending challenge in place
InitiateSaveKeepsFirst(p, code, emailSent) ==
  /\ At(p, "initiate", "otpSave")
  /\ transferOtp' = IF transferOtp[req[p].user] = NoOtp
                      THEN [transferOtp EXCEPT ![req[p].user] = Challenge(code)]
                    ELSE transferOtp
  /\ req' = Finish(p)
  /\ response' = [Answer("initiate", req[p].user, "success")
                    EXCEPT !.code = code]
  /\ UNCHANGED <<profile, users, deletedTransactions, now, balance, otpStore, bankTransactions, receipts,
                 accountSummary>>

\* user.save() of the hashed code and its expiry, then the email that carries
\* the code; the result of sendTransferOtpEmail is not looked at
InitiateSave(p, code, emailSent) ==
  /\ At(p, "initiate", "otpSave")
  /\ transferOtp' = [transferOtp EXCEPT ![req[p].user] = Challenge(code)]
  /\ profile' = [profile EXCEPT ![req[p].user].issuedFor =
                                  [shape |-> req[p].shape,
                                   amount |-> req[p].amount]]
  /\ req' = Finish(p)
  /\ response' = [Answer("initiate", req[p].user, "success")
                    EXCEPT !.code = code]
  /\ UNCHANGED <<users, deletedTransactions, now, balance, otpStore,
                 bankTransactions, receipts, accountSummary>>

\* ------------------------------------------------- transfer: POST /
\* the checks of the handler without the balance check
ExecuteChecksNoFunds(u, otp, shape, amount) ==
  IF otp = "none" THEN "OtpRequired"
  ELSE IF transferOtp[u] = NoOtp THEN "NoChallenge"
  ELSE IF now > transferOtp[u].expires THEN "Expired"
  ELSE IF ~BcryptCompare(otp, transferOtp[u].hash) THEN "Mismatch"
  ELSE IF shape.toAccount = "none" \/ amount = 0 THEN "InvalidInput"
  ELSE IF shape.transferType = "international" /\ ~shape.intlFields
    THEN "InvalidInput"
  ELSE IF amount <= 0 THEN "InvalidAmount"
  ELSE IF shape.transferType = "internal"
          /\ shape.toAccount \notin AccountNumbers THEN "RecipientNotFound"
  ELSE "pass"

\* the checks of a handler that accepts a code only for the transfer it was
\* issued for
ExecuteChecksBound(u, otp, shape, amount) ==
  IF otp = "none" THEN "OtpRequired"
  ELSE IF transferOtp[u] = NoOtp THEN "NoChallenge"
  ELSE IF now > transferOtp[u].expires THEN "Expired"
  ELSE IF ~BcryptCompare(otp, transferOtp[u].hash) THEN "Mismatch"
  ELSE IF [shape |-> shape, amount |-> amount] # profile[u].issuedFor
    THEN "Mismatch"
  ELSE IF shape.toAccount = "none" \/ amount = 0 THEN "InvalidInput"
  ELSE IF shape.transferType = "international" /\ ~shape.intlFields
    THEN "InvalidInput"
  ELSE IF amount <= 0 THEN "InvalidAmount"
  ELSE IF balance[u] < amount THEN "InsufficientFunds"
  ELSE IF shape.transferType = "internal"
          /\ shape.toAccount \notin AccountNumbers THEN "RecipientNotFound"
  ELSE "pass"

\* What the handler decides from the user document it has just read.
ExecuteChecks(u, otp, shape, amount) ==
  IF otp = "none" THEN "OtpRequired"
  ELSE IF transferOtp[u] = NoOtp THEN "NoChallenge"
  ELSE IF now > transferOtp[u].expires THEN "Expired"
  ELSE IF ~BcryptCompare(otp, transferOtp[u].hash) THEN "Mismatch"
  ELSE IF shape.toAccount = "none" \/ amount = 0 THEN "InvalidInput"
  ELSE IF shape.transferType = "international" /\ ~shape.intlFields
    THEN "InvalidInput"
  ELSE IF amount <= 0 THEN "InvalidAmount"
  ELSE IF balance[u] < amount THEN "InsufficientFunds"
  ELSE IF shape.transferType = "internal"
          /\ shape.toAccount \notin AccountNumbers THEN "RecipientNotFound"
  ELSE "pass"

\* the failures that precede bcrypt.compare
OtpFailuresBeforeCompare == {"OtpRequired", "NoChallenge", "Expired"}

\* the outcomes in which no verification has succeeded
OtpFailures == {"OtpRequired", "NoChallenge", "Expired", "Mismatch"}

\* User.findById with the challenge selected, and every check up to the
\* recipient lookup
ExecuteRead(p, u, otp, shape, amount) ==
  /\ Free(p)
  /\ MayRecord("execute", "transfer", MaxTransfers)
  /\ LET outcome == ExecuteChecks(u, otp, shape, amount)
         r == [Idle EXCEPT !.kind = "execute", !.user = u]
         v == [r EXCEPT !.code = otp, !.otp = transferOtp[u]]
     IN /\ IF outcome = "pass"
             THEN /\ req' = Begin(p, [v EXCEPT !.pc = "create",
                                               !.amount = amount,
                                               !.newBalance = balance[u] - amount])
                  /\ response' = NoResponse
           ELSE IF outcome = "Expired"
             THEN /\ req' = Begin(p, [r EXCEPT !.pc = "expiredSave"])
                  /\ response' = NoResponse
           ELSE IF outcome \in OtpFailures
             THEN /\ req' = Overlap(p)
                  /\ response' = [Answer("execute", u, outcome)
                                    EXCEPT !.code = otp]
           ELSE /\ req' = Overlap(p)
                /\ response' = Failure(v, outcome)
        /\ transferOtp' = IF outcome \in OtpFailures THEN transferOtp
                          ELSE [transferOtp EXCEPT ![u].used = TRUE]
  /\ UNCHANGED <<profile, users, deletedTransactions, now, balance, otpStore, bankTransactions, receipts,
                 accountSummary>>

\* the expired branch saving every path of the slot's document, the balance
\* included
ExecuteExpiredSaveWholeDocument(p) ==
  /\ At(p, "execute", "expiredSave")
  /\ transferOtp' = [transferOtp EXCEPT ![req[p].user] = NoOtp]
  /\ balance' = [balance EXCEPT ![req[p].user] = req[p].newBalance]
  /\ req' = Finish(p)
  /\ response' = Answer("execute", req[p].user, "Expired")
  /\ UNCHANGED <<profile, users, deletedTransactions, now, otpStore, bankTransactions, receipts, accountSummary>>

\* clear the expired challenge
ExecuteExpiredSave(p) ==
  /\ At(p, "execute", "expiredSave")
  /\ transferOtp' = [transferOtp EXCEPT ![req[p].user] = NoOtp]
  /\ req' = Finish(p)
  /\ response' = Answer("execute", req[p].user, "Expired")
  /\ UNCHANGED <<profile, users, deletedTransactions, now, balance, otpStore, bankTransactions, receipts,
                 accountSummary>>

\* BankTransaction.create with reference TRX-<Date.now()>
ExecuteCreate(p) ==
  /\ At(p, "execute", "create")
  /\ LET r == req[p]
         ref == <<"TRX", now>>
     IN IF ReferenceTaken(ref)
          THEN /\ req' = [req EXCEPT ![p].pc = "catch"]
               /\ UNCHANGED bankTransactions
          ELSE /\ bankTransactions' = bankTransactions \cup
                    {NewTransaction(r.user, -r.amount, "transfer",
                                    r.newBalance, ref, CurrencyOf[r.user])}
               /\ req' = [req EXCEPT ![p].pc = "receipt",
                                     ![p].reference = ref,
                                     ![p].transactionId = NewId(ref)]
  /\ response' = NoResponse
  /\ UNCHANGED <<profile, users, deletedTransactions, now, balance, transferOtp, otpStore, receipts,
                 accountSummary>>

\* Receipt.create linked by transaction._id
ExecuteReceipt(p) ==
  /\ At(p, "execute", "receipt")
  /\ LET r == req[p]
     IN receipts' = receipts \cup
          {NewReceipt(r.transactionId, r.user, -r.amount, "transfer",
                      r.newBalance, r.reference, CurrencyOf[r.user], now)}
  /\ req' = [req EXCEPT ![p].pc = "save"]
  /\ response' = NoResponse
  /\ UNCHANGED <<profile, users, deletedTransactions, now, balance, transferOtp, otpStore, bankTransactions,
                 accountSummary>>

\* user.save(): writes the modified paths accounts.0.balance, transferOtp
\* and transferOtpExpires
ExecuteSave(p) ==
  /\ At(p, "execute", "save")
  /\ LET r == req[p]
     IN /\ balance' = [balance EXCEPT ![r.user] = r.newBalance]
        /\ transferOtp' = [transferOtp EXCEPT ![r.user] = NoOtp]
        /\ req' = [req EXCEPT ![p].pc = "summary",
                              ![p].written = r.newBalance]
  /\ response' = NoResponse
  /\ UNCHANGED <<profile, users, deletedTransactions, now, otpStore, bankTransactions, receipts, accountSummary>>

\* AccountSummary.findOneAndUpdate, then the success response
ExecuteSummary(p) ==
  /\ At(p, "execute", "summary")
  /\ LET r == req[p]
     IN /\ accountSummary' = [accountSummary EXCEPT ![r.user] =
                                SummaryDebit(@, r.amount, CurrencyOf[r.user])]
        /\ response' = Success(r)
  /\ req' = Finish(p)
  /\ UNCHANGED <<profile, users, deletedTransactions, now, balance, transferOtp, otpStore, bankTransactions,
                 receipts>>

\* the catch block: reload the user, clear the challenge, answer 500
ExecuteCatch(p) ==
  /\ At(p, "execute", "catch")
  /\ transferOtp' = [transferOtp EXCEPT ![req[p].user] = NoOtp]
  /\ response' = Failure(req[p], "Failed")
  /\ req' = Finish(p)
  /\ UNCHANGED <<profile, users, deletedTransactions, now, balance, otpStore, bankTransactions, receipts,
                 accountSummary>>

TransferInitiate ==
  \/ \E p \in Procs, u \in Clients, in \in TransferInputs :
       InitiateRead(p, u, in.shape, in.amount)
  \/ \E p \in Procs, c \in Codes, sent \in BOOLEAN : InitiateSave(p, c, sent)

TransferExecute ==
  \/ \E p \in Procs, u \in Clients, c \in Guesses,
        in \in TransferInputs :
       ExecuteRead(p, u, c, in.shape, in.amount)
  \/ \E p \in Procs : ExecuteExpiredSave(p)
  \/ \E p \in Procs : ExecuteCreate(p)
  \/ \E p \in Procs : ExecuteReceipt(p)
  \/ \E p \in Procs : ExecuteSave(p)
  \/ \E p \in Procs : ExecuteSummary(p)
  \/ \E p \in Procs : ExecuteCatch(p)

\* ------------------------------------------ bill payment: POST /initiate
\* Validation, the read of the user (who has an email address) and the
\* write of globalThis.otpStore; a failed email throws after the write.
BillInitiate(p, u, billerId, amount, code, emailSent) ==
  /\ Free(p)
  /\ LET outcome == IF billerId = "none" \/ amount = 0 THEN "InvalidInput"
                    ELSE IF amount <= 0 THEN "InvalidAmount"
                    ELSE IF billerId \notin Billers THEN "InvalidBiller"
                    ELSE "pass"
     IN IF outcome = "pass"
          THEN /\ otpStore' = [otpStore EXCEPT ![u] = Challenge(code)]
               /\ response' = Answer("billInitiate", u,
                                     IF emailSent THEN "success" ELSE "Failed")
          ELSE /\ UNCHANGED otpStore
               /\ response' = Answer("billInitiate", u, outcome)
  /\ req' = Overlap(p)
  /\ UNCHANGED <<profile, users, deletedTransactions, now, balance, transferOtp, bankTransactions, receipts,
                 accountSummary>>

\* --------------------------------------------------- bill payment: POST /
\* The synchronous head of the handler: validation, the OTP comparison and
\* the delete of the challenge.  The stored code is the plain text.
BillChecks(u, billerId, amount, otp) ==
  IF billerId = "none" \/ amount = 0 \/ otp = "none" THEN "InvalidInput"
  ELSE IF amount <= 0 THEN "InvalidAmount"
  ELSE IF otpStore[u] = NoOtp \/ otpStore[u].hash # otp
          \/ otpStore[u].expires < now THEN "InvalidOrExpiredOtp"
  ELSE "pass"

BillVerify(p, u, billerId, amount, clientRef, otp) ==
  /\ Free(p)
  /\ MayRecord("bill", "payment", MaxPayments)
  /\ LET outcome == BillChecks(u, billerId, amount, otp)
     IN IF outcome = "pass"
          THEN /\ otpStore' = [otpStore EXCEPT ![u] = NoOtp]
               /\ req' = Begin(p, [Idle EXCEPT !.pc = "read", !.kind = "bill",
                                               !.user = u, !.amount = amount,
                                               !.billerId = billerId,
                                               !.clientRef = clientRef,
                                               !.code = otp,
                                               !.otp = otpStore[u]])
               /\ response' = NoResponse
          ELSE /\ UNCHANGED otpStore
               /\ req' = Overlap(p)
               /\ response' = Answer("bill", u, outcome)
  /\ UNCHANGED <<profile, users, deletedTransactions, now, balance, transferOtp, bankTransactions, receipts,
                 accountSummary>>

\* the handler with the transaction recorded ahead of the balance check
BillReadRecordsFirst(p) ==
  /\ At(p, "bill", "read")
  /\ LET r == req[p]
         ref == IF r.clientRef = NoRef THEN <<"BILL", now>> ELSE r.clientRef
     IN IF balance[r.user] < r.amount
          THEN /\ bankTransactions' = bankTransactions \cup
                    {NewTransaction(r.user, -r.amount, "payment",
                                    balance[r.user] - r.amount, ref,
                                    CurrencyOf[r.user])}
               /\ req' = Finish(p)
               /\ response' = Failure(r, "InsufficientFunds")
        ELSE IF r.billerId \notin Billers
          THEN /\ req' = Finish(p)
               /\ response' = Failure(r, "InvalidBiller")
               /\ UNCHANGED bankTransactions
        ELSE /\ req' = [req EXCEPT ![p].pc = "create",
                                   ![p].billerId = "none",
                                   ![p].newBalance = balance[r.user] - r.amount]
             /\ response' = NoResponse
             /\ UNCHANGED bankTransactions
  /\ UNCHANGED <<profile, users, deletedTransactions, now, balance, transferOtp, otpStore, receipts,
                 accountSummary>>

\* User.findById, the balance check and the biller lookup
BillRead(p) ==
  /\ At(p, "bill", "read")
  /\ LET r == req[p]
     IN IF balance[r.user] < r.amount
          THEN /\ req' = Finish(p)
               /\ response' = Failure(r, "InsufficientFunds")
        ELSE IF r.billerId \notin Billers
          THEN /\ req' = Finish(p)
               /\ response' = Failure(r, "InvalidBiller")
        ELSE /\ req' = [req EXCEPT ![p].pc = "create",
                                   ![p].billerId = "none",
                                   ![p].newBalance = balance[r.user] - r.amount]
             /\ response' = NoResponse
  /\ UNCHANGED <<profile, users, deletedTransactions, now, balance, transferOtp, otpStore, bankTransactions,
                 receipts, accountSummary>>

\* the step with the stored holder of the reference replaced by the new
\* transaction
BillCreateReplaces(p) ==
  /\ At(p, "bill", "create")
  /\ LET r == req[p]
         ref == IF r.clientRef = NoRef THEN <<"BILL", now>> ELSE r.clientRef
     IN /\ bankTransactions' =
             {t \in bankTransactions : t.reference # ref}
               \cup {NewTransaction(r.user, -r.amount, "payment",
                                    r.newBalance, ref, CurrencyOf[r.user])}
        /\ req' = [req EXCEPT ![p].pc = "serviceReceipt",
                              ![p].clientRef = NoRef,
                              ![p].reference = ref,
                              ![p].transactionId = NewId(ref),
                              ![p].createdAt = now]
        /\ response' = NoResponse
  /\ UNCHANGED <<profile, users, deletedTransactions, now, balance, transferOtp,
                 otpStore, receipts, accountSummary>>

\* createTransaction, first half: BankTransaction.create with the client's
\* reference or BILL-<Date.now()>
BillCreate(p) ==
  /\ At(p, "bill", "create")
  /\ LET r == req[p]
         ref == IF r.clientRef = NoRef THEN <<"BILL", now>> ELSE r.clientRef
     IN IF ReferenceTaken(ref)
          THEN /\ req' = Finish(p)
               /\ response' = Failure(r, "Failed")
               /\ UNCHANGED bankTransactions
          ELSE /\ bankTransactions' = bankTransactions \cup
                    {NewTransaction(r.user, -r.amount, "payment",
                                    r.newBalance, ref, CurrencyOf[r.user])}
               /\ req' = [req EXCEPT ![p].pc = "serviceReceipt",
                                     ![p].clientRef = NoRef,
                                     ![p].reference = ref,
                                     ![p].transactionId = NewId(ref),
                                     ![p].createdAt = now]
               /\ response' = NoResponse
  /\ UNCHANGED <<profile, users, deletedTransactions, now, balance, transferOtp, otpStore, receipts,
                 accountSummary>>

\* createTransaction, second half: Receipt.create with transactionId set to
\* the reference; the cast to ObjectId throws for any other string
BillServiceReceipt(p) ==
  /\ At(p, "bill", "serviceReceipt")
  /\ LET r == req[p]
     IN IF CastsToObjectId(r.reference)
          THEN /\ receipts' = receipts \cup
                    {NewReceipt(ObjectIdOf(r.reference), r.user,
                                -r.amount, "payment", r.newBalance,
                                r.reference, CurrencyOf[r.user],
                                r.createdAt)}
               /\ req' = [req EXCEPT ![p].pc = "receipt",
                                     ![p].createdAt = 0]
               /\ response' = NoResponse
          ELSE /\ req' = Finish(p)
               /\ response' = Failure(r, "Failed")
               /\ UNCHANGED receipts
  /\ UNCHANGED <<profile, users, deletedTransactions, now, balance, transferOtp, otpStore, bankTransactions,
                 accountSummary>>

\* the route's own Receipt.create, linked by transaction._id
BillReceipt(p) ==
  /\ At(p, "bill", "receipt")
  /\ LET r == req[p]
     IN receipts' = receipts \cup
          {NewReceipt(r.transactionId, r.user, -r.amount, "payment",
                      r.newBalance, r.reference, CurrencyOf[r.user], now)}
  /\ req' = [req EXCEPT ![p].pc = "save"]
  /\ response' = NoResponse
  /\ UNCHANGED <<profile, users, deletedTransactions, now, balance, transferOtp, otpStore, bankTransactions,
                 accountSummary>>

\* user.save(): writes the modified path accounts.0.balance
BillSave(p) ==
  /\ At(p, "bill", "save")
  /\ balance' = [balance EXCEPT ![req[p].user] = req[p].newBalance]
  /\ req' = [req EXCEPT ![p].pc = "summary",
                        ![p].written = req[p].newBalance]
  /\ response' = NoResponse
  /\ UNCHANGED <<profile, users, deletedTransactions, now, transferOtp, otpStore, bankTransactions, receipts,
                 accountSummary>>

BillSummary(p) ==
  /\ At(p, "bill", "summary")
  /\ LET r == req[p]
     IN /\ accountSummary' = [accountSummary EXCEPT ![r.user] =
                                SummaryDebit(@, r.amount, CurrencyOf[r.user])]
        /\ response' = Success(r)
  /\ req' = Finish(p)
  /\ UNCHANGED <<profile, users, deletedTransactions, now, balance, transferOtp, otpStore, bankTransactions,
                 receipts>>

BillPayment ==
  \/ \E p \in Procs, u \in Clients, in \in BillInputs, c \in Codes,
        sent \in BOOLEAN :
       BillInitiate(p, u, in.billerId, in.amount, c, sent)
  \/ \E p \in Procs, u \in Clients, in \in BillInputs, ref \in ClientRefs,
        c \in Guesses :
       BillVerify(p, u, in.billerId, in.amount, ref, c)
  \/ \E p \in Procs : BillRead(p)
  \/ \E p \in Procs : BillCreate(p)
  \/ \E p \in Procs : BillServiceReceipt(p)
  \/ \E p \in Procs : BillReceipt(p)
  \/ \E p \in Procs : BillSave(p)
  \/ \E p \in Procs : BillSummary(p)

\* ------------------------------------------------- admin: POST /credit
\* Validation, the lookup of the user and the account, and User.updateOne
\* with $inc on the balance.  Users and their accounts are not written by
\* any request here, so the lookup and the update act as one step.
CreditInc(p, u, amount) ==
  /\ Free(p)
  /\ MayRecord("credit", "deposit", MaxCredits)
  /\ IF amount = 0
       THEN /\ req' = Overlap(p)
            /\ response' = Answer("credit", u, "InvalidInput")
            /\ UNCHANGED balance
       ELSE /\ balance' = [balance EXCEPT ![u] = @ + amount]
            /\ req' = Begin(p, [Idle EXCEPT !.pc = "inc",
                                            !.kind = "credit", !.user = u,
                                            !.amount = amount,
                                            !.written = balance[u] + amount])
            /\ response' = NoResponse
  /\ UNCHANGED <<profile, users, deletedTransactions, now, transferOtp, otpStore, bankTransactions, receipts,
                 accountSummary>>

\* AccountSummary.findOneAndUpdate({new: true, upsert: true}); the updated
\* row's currentBalance is kept
CreditSummary(p) ==
  /\ At(p, "credit", "inc")
  /\ LET r == req[p]
         updatedSummary == SummaryCredit(accountSummary[r.user], r.amount)
     IN /\ accountSummary' = [accountSummary EXCEPT ![r.user] = updatedSummary]
        /\ req' = [req EXCEPT ![p].pc = "create",
                              ![p].newBalance = updatedSummary.currentBalance]
  /\ response' = NoResponse
  /\ UNCHANGED <<profile, users, deletedTransactions, now, balance, transferOtp, otpStore, bankTransactions,
                 receipts>>

\* BankTransaction.create with reference ADMIN-CREDIT-<Date.now()>; the
\* currency is the schema default
CreditCreate(p) ==
  /\ At(p, "credit", "create")
  /\ LET r == req[p]
         ref == <<"ADMIN-CREDIT", now>>
     IN IF ReferenceTaken(ref)
          THEN /\ response' = Failure(r, "Failed")
               /\ UNCHANGED bankTransactions
          ELSE /\ bankTransactions' = bankTransactions \cup
                    {NewTransaction(r.user, r.amount, "deposit",
                                    r.newBalance, ref, "USD")}
               /\ response' = Success([r EXCEPT !.reference = ref])
  /\ req' = Finish(p)
  /\ UNCHANGED <<profile, users, deletedTransactions, now, balance, transferOtp, otpStore, receipts,
                 accountSummary>>

AdminCredit ==
  \/ \E p \in Procs, u \in Clients, a \in CreditInputs : CreditInc(p, u, a)
  \/ \E p \in Procs : CreditSummary(p)
  \/ \E p \in Procs : CreditCreate(p)

\* ------------------------------------- admin: POST /backdate-transaction
\* Both admin handlers run in a mongoose session with a transaction.  The
\* session reads the state committed when its first read ran; what it writes
\* is visible to nobody until the commit, and a write to a document that
\* changed after that read, or that another open session has written, fails
\* with a write conflict.

\* the route with originalDate set on every backdate
BackdatedResetsOriginal(t, newDate, adminId) ==
  PreSave([t EXCEPT !.originalDate = t.createdAt,
                    !.createdAt = newDate,
                    !.lastModifiedBy = adminId],
          FALSE, newDate # t.createdAt)

\* a backdate that marks the transaction in its status as well
BackdatedMarksStatus(t, newDate, adminId) ==
  LET kept == IF t.originalDate = NoDate
                THEN [t EXCEPT !.originalDate = t.createdAt]
              ELSE t
  IN PreSave([kept EXCEPT !.createdAt = newDate,
                          !.lastModifiedBy = adminId,
                          !.status = "backdated"],
             FALSE, newDate # t.createdAt)

\* What the route does to the document it found, and the save hook; setting
\* createdAt to the date it holds does not mark the path modified.
Backdated(t, newDate, adminId) ==
  LET kept == IF t.originalDate = NoDate
                THEN [t EXCEPT !.originalDate = t.createdAt]
              ELSE t
  IN PreSave([kept EXCEPT !.createdAt = newDate,
                          !.lastModifiedBy = adminId],
             FALSE, newDate # t.createdAt)

\* the checks without the one on future dates
BackdateChecksAllowFuture(tid, newDate) ==
  IF tid = NoId \/ newDate = NoDate THEN "InvalidInput"
  ELSE IF newDate = InvalidDate THEN "InvalidDate"
  ELSE IF tid = MalformedId THEN "Failed"
  ELSE IF ~\E t \in bankTransactions : t.id = tid THEN "NotFound"
  ELSE "pass"

\* validation, and BankTransaction.findById, which throws on a string that
\* is no ObjectId
BackdateChecks(tid, newDate) ==
  IF tid = NoId \/ newDate = NoDate THEN "InvalidInput"
  ELSE IF newDate = InvalidDate THEN "InvalidDate"
  ELSE IF newDate > now THEN "FutureDate"
  ELSE IF tid = MalformedId THEN "Failed"
  ELSE IF ~\E t \in bankTransactions : t.id = tid THEN "NotFound"
  ELSE "pass"

\* entries of all modification histories, and backdates in flight
HistoryEntries ==
  UNION {{<<t.id, i>> : i \in 1..Len(t.modificationHistory)} :
           t \in bankTransactions}
MayBackdate ==
  Cardinality(HistoryEntries)
    + Cardinality({q \in Procs : req[q].kind = "backdate"}) < MaxBackdates

\* another session has written the document and not yet committed
WrittenByOther(p, tid) ==
  \E q \in Procs \ {p} : /\ req[q].kind = "delete"
                         /\ req[q].pc = "commit"
                         /\ req[q].doc.id = tid

\* the write of a session fails: the document is not as the session read it
WriteConflict(p) ==
  \/ req[p].doc \notin bankTransactions
  \/ WrittenByOther(p, req[p].doc.id)

BackdateFind(p, adminId, tid, newDate) ==
  /\ Free(p)
  /\ MayBackdate
  /\ LET outcome == BackdateChecks(tid, newDate)
     IN IF outcome = "pass"
          THEN LET t == CHOOSE x \in bankTransactions : x.id = tid
               IN /\ req' = Begin(p, [Idle EXCEPT
                                        !.pc = "commit",
                                        !.kind = "backdate",
                                        !.user = t.userId,
                                        !.admin = adminId,
                                        !.newDate = newDate,
                                        !.doc = t,
                                        !.hasReceipt =
                                           \E x \in receipts :
                                             x.transactionId = tid])
                  /\ response' = NoResponse
          ELSE /\ req' = Overlap(p)
               /\ response' = Answer("backdate", "none", outcome)
  /\ UNCHANGED <<profile, users, deletedTransactions, now, balance, transferOtp, otpStore,
                 bankTransactions, receipts, accountSummary>>

\* transaction.save, Receipt.findOneAndUpdate and
\* AccountSummary.findOneAndUpdate in the session, and the commit: one step
\* for every other request, which sees none of the writes before the commit.
\* A failed write or commit ends in the catch block, which aborts.
BackdateCommit(p, ok) ==
  /\ At(p, "backdate", "commit")
  /\ LET r == req[p]
         u == r.doc.userId
     IN IF WriteConflict(p) \/ ~ok
          THEN /\ response' = Failure(r, "Failed")
               /\ UNCHANGED <<bankTransactions, receipts, accountSummary>>
          ELSE /\ bankTransactions' =
                    (bankTransactions \ {r.doc})
                      \cup {Backdated(r.doc, r.newDate, r.admin)}
               /\ receipts' =
                    IF r.hasReceipt
                      THEN {IF x.transactionId = r.doc.id
                              THEN [x EXCEPT !.transactionDate = r.newDate]
                            ELSE x : x \in receipts}
                    ELSE receipts
               /\ accountSummary' =
                    IF accountSummary[u].present
                      THEN [accountSummary EXCEPT
                              ![u].lastTransactionDate = now]
                    ELSE accountSummary
               /\ response' = Success([r EXCEPT !.reference = r.doc.reference])
  /\ req' = Finish(p)
  /\ UNCHANGED <<profile, users, deletedTransactions, now, balance, transferOtp, otpStore>>

AdminBackdate ==
  \/ \E p \in Procs, a \in Admins,
        tid \in {t.id : t \in bankTransactions}
                  \cup {NoId, MalformedId, UnknownId},
        d \in BackdateDates \cup {NoDate, InvalidDate} :
       BackdateFind(p, a, tid, d)
  \/ \E p \in Procs, ok \in BOOLEAN : BackdateCommit(p, ok)

\* ------------------------- admin: DELETE /delete-transaction/:transactionId
\* DeletedTransaction.create of the backup: the paths of the
\* DeletedTransaction schema are kept, _id and createdAt among them;
\* originalDate, lastModifiedBy and modificationHistory are not paths of it
Archived(t, tid, adminId) ==
  [id |-> t.id, originalTransactionId |-> tid, userId |-> t.userId,
   accountNumber |-> t.accountNumber, amount |-> t.amount, type |-> t.type,
   balanceAfter |-> t.balanceAfter, reference |-> t.reference,
   status |-> t.status, currency |-> t.currency, createdAt |-> t.createdAt,
   originalDate |-> NoDate, modificationHistory |-> <<>>,
   deletedBy |-> adminId, deletionReason |-> "Admin deletion",
   deletedAt |-> now]

DeleteFind(p, adminId, tid) ==
  /\ Free(p)
  /\ LET outcome == IF tid = MalformedId THEN "Failed"
                    ELSE IF ~\E t \in bankTransactions : t.id = tid
                      THEN "NotFound"
                    ELSE "pass"
     IN IF outcome = "pass"
          THEN LET t == CHOOSE x \in bankTransactions : x.id = tid
               IN /\ req' = Begin(p, [Idle EXCEPT
                                        !.pc = "archive",
                                        !.kind = "delete",
                                        !.user = t.userId,
                                        !.admin = adminId,
                                        !.doc = t,
                                        !.hasReceipt =
                                           \E x \in receipts :
                                             x.transactionId = tid])
                  /\ response' = NoResponse
          ELSE /\ req' = Overlap(p)
               /\ response' = Answer("delete", "none", outcome)
  /\ UNCHANGED <<profile, users, deletedTransactions, now, balance, transferOtp, otpStore,
                 bankTransactions, receipts, accountSummary>>

\* BankTransaction.deleteOne and Receipt.deleteOne in the session, then
\* DeletedTransaction.create, which is not given the session: the archive
\* document is written at once.  Its _id is the transaction's.
DeleteArchive(p, ok) ==
  /\ At(p, "delete", "archive")
  /\ LET r == req[p]
     IN IF \/ WriteConflict(p)
           \/ ~ok
           \/ \E d \in deletedTransactions : d.id = r.doc.id
          THEN /\ response' = Failure(r, "Failed")
               /\ req' = Finish(p)
               /\ UNCHANGED deletedTransactions
          ELSE /\ deletedTransactions' =
                    deletedTransactions
                      \cup {Archived(r.doc, r.doc.id, r.admin)}
               /\ req' = [req EXCEPT ![p].pc = "commit"]
               /\ response' = NoResponse
  /\ UNCHANGED <<profile, users, now, balance, transferOtp, otpStore, bankTransactions,
                 receipts, accountSummary>>

\* session.commitTransaction: the two deletes become visible, or the catch
\* block aborts them
DeleteCommit(p, ok) ==
  /\ At(p, "delete", "commit")
  /\ LET r == req[p]
     IN IF ok
          THEN /\ bankTransactions' = bankTransactions \ {r.doc}
               /\ receipts' =
                    IF r.hasReceipt
                      THEN {x \in receipts : x.transactionId # r.doc.id}
                    ELSE receipts
               /\ response' = Success([r EXCEPT !.reference = r.doc.reference])
          ELSE /\ response' = Failure(r, "Failed")
               /\ UNCHANGED <<bankTransactions, receipts>>
  /\ req' = Finish(p)
  /\ UNCHANGED <<profile, users, deletedTransactions, now, balance, transferOtp, otpStore,
                 accountSummary>>

AdminDelete ==
  \/ \E p \in Procs, a \in Admins,
        tid \in {t.id : t \in bankTransactions} \cup {MalformedId, UnknownId} :
       DeleteFind(p, a, tid)
  \/ \E p \in Procs, ok \in BOOLEAN : DeleteArchive(p, ok)
  \/ \E p \in Procs, ok \in BOOLEAN : DeleteCommit(p, ok)

\* --------------------------------------------------------- specifications
Next ==
  \/ Tick
  \/ Deliver
  \/ TransferInitiate
  \/ TransferExecute
  \/ BillPayment
  \/ AdminCredit

Spec == Init /\ [][Next]_vars

\* the transfer routes alone
NextTransfer ==
  \/ Tick
  \/ Deliver
  \/ TransferInitiate
  \/ TransferExecute

SpecTransfer == Init /\ [][NextTransfer]_vars

\* the two routes a client debits an account with
NextPayments ==
  \/ Tick
  \/ Deliver
  \/ TransferInitiate
  \/ TransferExecute
  \/ BillPayment

SpecPayments == Init /\ [][NextPayments]_vars

\* transfers and admin credits
NextCredit ==
  \/ Tick
  \/ Deliver
  \/ TransferInitiate
  \/ TransferExecute
  \/ AdminCredit

SpecCredit == Init /\ [][NextCredit]_vars

\* bill payments and the backdating of what they record
NextBackdate ==
  \/ Tick
  \/ Deliver
  \/ BillPayment
  \/ AdminBackdate

SpecBackdate == Init /\ [][NextBackdate]_vars

\* bill payments and the deletion of what they record
NextDelete ==
  \/ Tick
  \/ Deliver
  \/ BillPayment
  \/ AdminDelete

SpecDelete == Init /\ [][NextDelete]_vars

\* admin credits and the two admin corrections
NextAdmin ==
  \/ Tick
  \/ Deliver
  \/ AdminCredit
  \/ AdminBackdate
  \/ AdminDelete

SpecAdmin == Init /\ [][NextAdmin]_vars

\* Transfer initiations that draw different codes: generateOtp is random, so
\* two initiations of one user may store either of two codes, and a client
\* may submit either.
TwoCodes == Codes \cup {"200000"}

OtpInitiate ==
  \/ \E p \in Procs, u \in Clients, in \in TransferInputs :
       InitiateRead(p, u, in.shape, in.amount)
  \/ \E p \in Procs, c \in TwoCodes, sent \in BOOLEAN :
       InitiateSave(p, c, sent)

OtpExecute ==
  \/ \E p \in Procs, u \in Clients, c \in TwoCodes \cup {"none"},
        in \in TransferInputs :
       ExecuteRead(p, u, c, in.shape, in.amount)
  \/ \E p \in Procs : ExecuteExpiredSave(p)
  \/ \E p \in Procs : ExecuteCreate(p)
  \/ \E p \in Procs : ExecuteReceipt(p)
  \/ \E p \in Procs : ExecuteSave(p)
  \/ \E p \in Procs : ExecuteSummary(p)
  \/ \E p \in Procs : ExecuteCatch(p)

NextOtp ==
  \/ Tick
  \/ Deliver
  \/ OtpInitiate
  \/ OtpExecute

SpecOtp == Init /\ [][NextOtp]_vars

\* ------------------------------------------------------------------ claims
\* what a response says about the request it answers
Committed(kind) == response.kind = kind /\ response.resp = "success"
Rejected(kind, resp) == response.kind = kind /\ response.resp = resp
Quiet == response = NoResponse /\ \A p \in Procs : req[p].pc = "idle"
TransactionsOf(ref) == {t \in bankTransactions : t.reference = ref}
ReceiptsOf(t) == {r \in receipts : r.transactionId = t.id}
\* the balance a request in flight found when it read the account
BalanceRead(p) == req[p].newBalance + req[p].amount
Max(a, b) == IF a >= b THEN a ELSE b

\* C1: after any sequence of committed transfers and bill payments, requests
\* on the same account interleaving or not, no stored balance is negative.
C1_BalanceNonNegative == \A u \in Users : balance[u] >= 0

\* a bill payment that overlapped another request has committed after a
\* transfer, and the account is empty
C1_Witness ==
  /\ Committed("bill")
  /\ ~response.alone
  /\ \E t \in bankTransactions : t.type = "transfer"
  /\ balance[response.user] = 0

\* C2: two concurrent transfer executions debiting the same account never
\* both pass the balance check and both commit when their amounts add up to
\* more than the balance the account had before either committed.
C2_NoDoubleSpend ==
  \A p, q \in Procs :
    (/\ p # q
     /\ req[p].kind = "execute" /\ req[p].pc = "summary"
     /\ req[q].kind = "execute" /\ req[q].pc = "summary"
     /\ req[p].user = req[q].user)
    => req[p].amount + req[q].amount <= Max(BalanceRead(p), BalanceRead(q))

\* two transfers of 1 have both debited an account that held 1
C2_Witness ==
  /\ balance["u1"] = 0
  /\ \A p \in Procs : /\ req[p].kind = "execute" /\ req[p].pc = "summary"
                      /\ req[p].amount = 1 /\ BalanceRead(p) = 1

\* C3: OTP single use: once a verification of an issued code has succeeded,
\* no later verification of that code succeeds unless a new initiate has
\* stored a new challenge in between.
C3_SingleUse ==
  /\ ~response.otp.used
  /\ \A p \in Procs : ~req[p].otp.used

\* a transfer execute was turned down for insufficient funds after its code
\* had matched, and a later execute has matched the same challenge
C3_Witness ==
  /\ \E p \in Procs : req[p].kind = "execute" /\ req[p].otp.used
  /\ \A p \in Procs : req[p].alone

\* C4: one issued OTP authorizes at most one committed transfer: of two
\* concurrent transfer executes of one user carrying the same valid code, at
\* most one records a Transaction and debits the account.
C4_OneTransferPerOtp ==
  \A p, q \in Procs :
    (/\ p # q
     /\ req[p].kind = "execute" /\ req[p].pc = "summary"
     /\ req[q].kind = "execute" /\ req[q].pc = "summary"
     /\ req[p].user = req[q].user)
    => \/ req[p].otp.hash # req[q].otp.hash
       \/ req[p].otp.expires # req[q].otp.expires

\* two transfers that verified the same challenge have each recorded a
\* Transaction
C4_Witness ==
  /\ Cardinality({t \in bankTransactions : t.type = "transfer"}) = 2
  /\ \A p \in Procs : /\ req[p].kind = "execute" /\ req[p].pc = "summary"
                      /\ req[p].otp.hash = "100000"
                      /\ req[p].otp.expires = OtpTtl

\* C5: a verification attempted after the challenge's expiry time fails, and
\* after that attempt no challenge is pending for the user, for the transfer
\* OTP and for the bill-payment OTP.
C5_ExpiryClears ==
  [][\A u \in Users :
       /\ (/\ otpStore[u] # NoOtp
           /\ otpStore[u].expires < now
           /\ \/ response' = Answer("bill", u, "InvalidOrExpiredOtp")
              \/ \E p \in Procs : /\ req[p].pc = "idle"
                                  /\ req'[p].kind = "bill"
                                  /\ req'[p].user = u)
          => /\ response'.resp = "InvalidOrExpiredOtp"
             /\ otpStore'[u] = NoOtp
       /\ (/\ transferOtp[u] # NoOtp
           /\ now > transferOtp[u].expires
           /\ \E p \in Procs : /\ req[p].pc = "idle"
                               /\ req'[p].kind = "execute"
                               /\ req'[p].user = u)
          => \E p \in Procs : req'[p].pc = "expiredSave"
       /\ response' = Answer("execute", u, "Expired")
          => transferOtp'[u] = NoOtp]_vars

\* a bill payment has been turned down after the expiry of its challenge,
\* and the challenge is still stored
C5_Witness ==
  /\ Rejected("bill", "InvalidOrExpiredOtp")
  /\ otpStore[response.user] # NoOtp
  /\ otpStore[response.user].expires < now

\* C6: when no request is in flight, every Transaction recorded by a
\* transfer, a bill payment or an admin credit has exactly one Receipt linked
\* by the Transaction's id, with the same amount, balanceAfter and currency.
C6_ReceiptOneToOne ==
  Quiet =>
    \A t \in bankTransactions :
      t.reference[2] >= 0 =>
        /\ Cardinality(ReceiptsOf(t)) = 1
        /\ \A r \in ReceiptsOf(t) : /\ r.amount = t.amount
                                    /\ r.balanceAfter = t.balanceAfter
                                    /\ r.currency = t.currency

\* an admin credit has been answered and its Transaction has no Receipt
C6_Witness ==
  /\ Quiet
  /\ \E t \in bankTransactions :
       /\ t.type = "deposit"
       /\ t.reference[2] >= 0
       /\ t.amount = 1
       /\ ReceiptsOf(t) = {}

C8_BalanceAfterIsWritten ==
  \A kind \in {"execute", "bill", "credit"} :
    Committed(kind) =>
      \A t \in TransactionsOf(response.reference) :
        t.balanceAfter = response.written

\* an admin credit that ran while a transfer stood between its balance write
\* and its summary update recorded a balanceAfter the account never held
C8_Witness ==
  /\ Committed("credit")
  /\ response.amount = 1
  /\ \E t \in TransactionsOf(response.reference) :
       t.balanceAfter # response.written
  /\ \E p \in Procs : req[p].kind = "execute" /\ req[p].pc = "summary"

\* C9: a transfer execute of amount a from balance b >= a that runs alone
\* and succeeds answers newBalance = b - a with a reference, and leaves the
\* balance at b - a, one new Transaction with amount -a and balanceAfter
\* b - a, one matching Receipt and AccountSummary.currentBalance = b - a.
C9_TransferAlone ==
  (Committed("execute") /\ response.alone) =>
    LET u == response.user
        a == response.amount
        left == response.newBalance
    IN /\ left >= 0
       /\ response.reference # NoRef
       /\ balance[u] = left
       /\ Cardinality(TransactionsOf(response.reference)) = 1
       /\ \A t \in TransactionsOf(response.reference) :
            /\ t.amount = 0 - a
            /\ t.balanceAfter = left
            /\ Cardinality(ReceiptsOf(t)) = 1
            /\ \A r \in ReceiptsOf(t) : /\ r.amount = t.amount
                                        /\ r.balanceAfter = left
                                        /\ r.currency = t.currency
       /\ accountSummary[u].currentBalance = left

\* after a transfer lost the update of an admin credit of 1, a transfer that
\* ran alone has succeeded, and the summary row disagrees with the balance
\* it left
C9_Witness ==
  /\ Committed("execute")
  /\ response.alone
  /\ balance[response.user] = response.newBalance
  /\ response.newBalance = 0
  /\ accountSummary[response.user].currentBalance = 1
  /\ \E t \in bankTransactions :
       t.type = "deposit" /\ t.reference[2] >= 0 /\ t.amount = 1

\* C10: a transfer or bill payment rejected for insufficient funds or for an
\* unknown recipient account creates no Transaction and no Receipt and
\* leaves the balance and the AccountSummary unchanged.
C10_RejectionWritesNothing ==
  [][(\/ /\ response'.kind \in {"execute", "bill"}
         /\ response'.resp \in {"InsufficientFunds", "RecipientNotFound"}
      \/ \E p \in Procs : /\ req[p].pc = "idle"
                          /\ req'[p].kind = "bill"
                          /\ req'[p].pc = "read")
     => UNCHANGED ledger]_vars

\* a bill payment has been rejected for insufficient funds on an account
\* with a recorded transfer
C10_Witness ==
  /\ Rejected("bill", "InsufficientFunds")
  /\ response.otp # NoOtp
  /\ \E t \in bankTransactions : t.type = "transfer"

\* C11: when the OTP verification of a transfer execute fails (no pending
\* challenge, challenge expired, wrong code) the request is rejected, no
\* Transaction and no Receipt is created, and the balance and the
\* AccountSummary are unchanged.
C11_OtpFailureWritesNothing ==
  [][/\ (\/ /\ response'.kind = "execute"
            /\ response'.resp \in {"NoChallenge", "Expired", "Mismatch"}
         \/ \E p \in Procs : req[p].pc = "idle" /\ req'[p].pc = "expiredSave")
        => UNCHANGED ledger
     /\ \A p \in Procs :
          (/\ req[p].pc = "idle"
           /\ req'[p].kind = "execute"
           /\ req'[p].pc = "create")
          => /\ transferOtp[req'[p].user] # NoOtp
             /\ now <= transferOtp[req'[p].user].expires
             /\ req'[p].otp = transferOtp[req'[p].user]]_vars

\* a transfer execute has been turned down for an expired challenge on a
\* funded account that already has a recorded transfer
C11_Witness ==
  /\ Rejected("execute", "Expired")
  /\ balance[response.user] > 0
  /\ \E t \in bankTransactions : t.type = "transfer"

\* C12: once the OTP verification of a transfer or bill-payment execute has
\* succeeded, the challenge is consumed whatever happens next: when the
\* request ends, by a later rejection or an error as much as by success, the
\* challenge it verified is no longer stored and cannot be verified again.
C12_VerifiedChallengeConsumed ==
  (response.kind \in {"execute", "bill"} /\ response.otp # NoOtp) =>
    /\ ~transferOtp[response.user].used
    /\ ~otpStore[response.user].used

\* a transfer execute whose code matched has been answered 'Insufficient
\* funds', and the challenge it verified is still stored and unexpired
C12_Witness ==
  /\ Rejected("execute", "InsufficientFunds")
  /\ response.otp # NoOtp
  /\ transferOtp[response.user].used
  /\ transferOtp[response.user].hash = response.otp.hash
  /\ now <= transferOtp[response.user].expires

C14_LastInitiateWins ==
  [][\A u \in Users :
       /\ (/\ response'.kind = "initiate"
           /\ response'.user = u
           /\ response'.resp = "success")
          => transferOtp'[u] = [hash |-> response'.code,
                                expires |-> now + OtpTtl, used |-> FALSE]
       /\ \A p \in Procs :
            (/\ req[p].pc = "idle"
             /\ req'[p].kind = "execute"
             /\ req'[p].user = u
             /\ req'[p].pc = "create")
            => /\ req'[p].code = transferOtp[u].hash
               /\ req'[p].otp = transferOtp[u]
       /\ (/\ response'.kind = "execute"
           /\ response'.user = u
           /\ response'.otp # NoOtp
           /\ \A p \in Procs : req'[p].pc = req[p].pc)
          => response'.code = transferOtp[u].hash
       /\ (/\ response'.kind = "execute"
           /\ response'.user = u
           /\ response'.code \in TwoCodes
           /\ transferOtp[u] # NoOtp
           /\ now <= transferOtp[u].expires
           /\ response'.code # transferOtp[u].hash
           /\ \A p \in Procs : req'[p].pc = req[p].pc)
          => response'.resp = "Mismatch"]_vars

\* the code of an earlier initiation, which an execute still in flight had
\* verified, has been rejected after a later initiation stored another code
C14_Witness ==
  /\ Rejected("execute", "Mismatch")
  /\ response.code = "100000"
  /\ transferOtp[response.user].hash = "200000"
  /\ ~transferOtp[response.user].used
  /\ \E q \in Procs : /\ req[q].kind = "execute"
                      /\ req[q].otp.hash = "100000"

\* the live Transaction a response speaks of, by the _id the request read
LiveOf(doc) == {t \in bankTransactions : t.id = doc.id}

\* C15: a Transaction's originalDate is the date it was created with, D0,
\* and stays D0 through any sequence of successful backdates.
C15_OriginalDatePreserved ==
  [][\A t2 \in bankTransactions' :
       IF \E t \in bankTransactions : t.id = t2.id
         THEN \A t \in bankTransactions :
                t.id = t2.id => t2.originalDate = t.originalDate
       ELSE /\ t2.originalDate = now
            /\ t2.createdAt = now]_vars

\* a second backdate of a Transaction has committed, and its originalDate is
\* neither the date it had before this backdate nor the one it has now
C15_Witness ==
  /\ Committed("backdate")
  /\ Len(response.doc.modificationHistory) = 1
  /\ \E t \in LiveOf(response.doc) :
       /\ t.createdAt = response.newDate
       /\ t.originalDate # t.createdAt
       /\ t.originalDate # response.doc.createdAt
       /\ Len(t.modificationHistory) = 2

\* C16: each successful backdate appends exactly one modificationHistory
\* entry, with the acting admin as changedBy, from = the Transaction's date
\* before this backdate and to = the new date; the entries already there are
\* neither changed nor removed.
C16_HistoryAppended ==
  Committed("backdate") =>
    \A t \in LiveOf(response.doc) :
      LET old == response.doc.modificationHistory
          new == t.modificationHistory
      IN /\ Len(new) = Len(old) + 1
         /\ SubSeq(new, 1, Len(old)) = old
         /\ new[Len(new)].changedBy = response.admin
         /\ new[Len(new)].from = response.doc.createdAt
         /\ new[Len(new)].to = response.newDate

\* a backdate to another date has committed and appended one entry by the
\* acting admin whose from is the new date, not the date before
C16_Witness ==
  /\ Committed("backdate")
  /\ response.newDate # response.doc.createdAt
  /\ \E t \in LiveOf(response.doc) :
       LET new == t.modificationHistory
       IN /\ Len(new) = Len(response.doc.modificationHistory) + 1
          /\ new[Len(new)].changedBy = response.admin
          /\ new[Len(new)].to = response.newDate
          /\ new[Len(new)].from = response.newDate

\* the Receipts written for a Transaction: linked by its _id, or carrying
\* its reference
ReceiptsFor(t) ==
  {r \in receipts : r.transactionId = t.id \/ r.reference = t.reference}

\* C17: after a successful backdate to D the Transaction's createdAt is D
\* and so is the transactionDate of the Receipt created for it, whichever
\* path created the Receipt: transfer, bill payment or createTransaction.
C17_ReceiptDateFollows ==
  Committed("backdate") =>
    \A t \in LiveOf(response.doc) :
      /\ t.createdAt = response.newDate
      /\ \A r \in ReceiptsFor(t) : r.transactionDate = response.newDate

\* a bill payment's Transaction has been backdated: the Receipt the route
\* linked by _id carries the new date, the one createTransaction wrote with
\* the reference as transactionId still carries the old one
C17_Witness ==
  /\ Committed("backdate")
  /\ \E t \in LiveOf(response.doc) :
       /\ t.createdAt = response.newDate
       /\ \E r \in receipts : /\ r.transactionId = t.id
                              /\ r.transactionDate = response.newDate
       /\ \E r \in receipts : /\ r.transactionId = ObjectIdOf(t.reference)
                              /\ r.reference = t.reference
                              /\ r.transactionDate # response.newDate

\* C18: a backdate to a date in the future, or one naming a Transaction that
\* does not exist, is rejected and changes nothing: no Transaction's
\* createdAt, originalDate or modificationHistory, no Receipt, no
\* AccountSummary.
C18_RejectedBackdateWritesNothing ==
  [][/\ (/\ response'.kind = "backdate"
         /\ response'.resp \in {"FutureDate", "NotFound"})
        => UNCHANGED <<ledger, deletedTransactions>>
     /\ \A p \in Procs :
          (req[p].pc = "idle" /\ req'[p].kind = "backdate")
          => /\ req'[p].newDate <= now
             /\ req'[p].doc \in bankTransactions
     /\ \A t \in bankTransactions' : t.createdAt <= now']_vars

\* a backdate to a date still to come has been rejected while a bill payment
\* with its Receipts is recorded
C18_Witness ==
  /\ Rejected("backdate", "FutureDate")
  /\ \E t \in bankTransactions : t.type = "payment" /\ ReceiptsFor(t) # {}

\* the archive documents of a Transaction
ArchivesOf(doc) ==
  {d \in deletedTransactions : d.originalTransactionId = doc.id}

\* C19: after a successful admin delete of Transaction T no live Transaction
\* and no Receipt of T remains, and exactly one DeletedTransaction exists
\* for T, holding T's field values and the deleting admin, the reason and
\* the time of the deletion.
C19_DeleteArchives ==
  Committed("delete") =>
    LET T == response.doc
    IN /\ \A t \in bankTransactions :
            t.id # T.id /\ t.reference # T.reference
       /\ ReceiptsFor(T) = {}
       /\ Cardinality(ArchivesOf(T)) = 1
       /\ \A d \in ArchivesOf(T) :
            /\ d.userId = T.userId
            /\ d.accountNumber = T.accountNumber
            /\ d.amount = T.amount
            /\ d.type = T.type
            /\ d.balanceAfter = T.balanceAfter
            /\ d.reference = T.reference
            /\ d.status = T.status
            /\ d.currency = T.currency
            /\ d.createdAt = T.createdAt
            /\ d.originalDate = T.originalDate
            /\ d.modificationHistory = T.modificationHistory
            /\ d.deletedBy = response.admin
            /\ d.deletionReason = "Admin deletion"
            /\ d.deletedAt <= now

\* a bill payment's Transaction has been deleted and archived, and the
\* Receipt createTransaction wrote for it is still stored
C19_Witness ==
  /\ Committed("delete")
  /\ LiveOf(response.doc) = {}
  /\ Cardinality(ArchivesOf(response.doc)) = 1
  /\ \E r \in receipts : /\ r.reference = response.doc.reference
                         /\ r.transactionId = ObjectIdOf(r.reference)
  /\ ~\E r \in receipts : r.transactionId = response.doc.id

\* C20: delete-transaction and backdate are all-or-nothing: when the
\* operation aborts, or a write or the final commit fails, none of its
\* writes is visible afterwards; in particular a DeletedTransaction exists
\* for T only if the live T and its Receipt have been removed.
C20_AllOrNothing ==
  [][/\ (/\ response'.kind \in {"backdate", "delete"}
         /\ response'.resp # "success")
        => /\ UNCHANGED ledger
           /\ \A d \in deletedTransactions' :
                d.originalTransactionId # response'.doc.id
     /\ \A d \in deletedTransactions' :
          (\A p \in Procs : ~(/\ req'[p].kind = "delete"
                              /\ req'[p].doc.id = d.originalTransactionId))
          => /\ \A t \in bankTransactions' : t.id # d.originalTransactionId
             /\ \A r \in receipts' :
                  r.transactionId # d.originalTransactionId]_vars

\* the commit of a delete has failed and the request has been answered 500:
\* the Transaction is live and its archive document is stored
C20_Witness ==
  /\ Rejected("delete", "Failed")
  /\ response.doc \in bankTransactions
  /\ ArchivesOf(response.doc) # {}
  /\ \A p \in Procs : req[p].pc = "idle"

\* ------------------------------------------ admin: DELETE /delete-user/:userId
\* what the route may be given as userId besides the _id of a stored user: a
\* well-formed id of no user, and a string that is no ObjectId
UnknownUser == "u9"
MalformedUser == "text"

\* The whole handler, which runs in a session: BankTransaction.deleteMany and
\* AccountSummary.deleteMany by userId, User.findByIdAndDelete, and the
\* commit; a missing user aborts the session, a cast error or a failed commit
\* ends in the catch block, which aborts too.  Receipt and DeletedTransaction
\* are not touched.  The handler is followed while no request on the user's
\* documents is in flight, so the session meets no conflicting write and its
\* writes appear as one step; the balance and the transfer challenge go with
\* the User document.
DeleteUser(p, userId, ok) ==
  /\ Free(p)
  /\ \A q \in Procs : req[q].pc = "idle" \/ req[q].user # userId
  /\ IF userId = MalformedUser \/ (userId \in users /\ ~ok)
       THEN /\ response' = Answer("deleteUser", userId, "Failed")
            /\ UNCHANGED <<profile, users, balance, transferOtp, bankTransactions,
                           accountSummary>>
     ELSE IF userId \notin users
       THEN /\ response' = Answer("deleteUser", userId, "NotFound")
            /\ UNCHANGED <<profile, users, balance, transferOtp, bankTransactions,
                           accountSummary>>
     ELSE /\ bankTransactions' =
               {t \in bankTransactions : t.userId # userId}
          /\ accountSummary' = [accountSummary EXCEPT ![userId] = NoSummary]
          /\ users' = users \ {userId}
          /\ balance' = [balance EXCEPT ![userId] = 0]
          /\ transferOtp' = [transferOtp EXCEPT ![userId] = NoOtp]
          /\ response' = Answer("deleteUser", userId, "success")
  /\ req' = Overlap(p)
  /\ UNCHANGED <<profile, deletedTransactions, now, otpStore, receipts>>

AdminDeleteUser ==
  \E p \in Procs, u \in Users \cup {UnknownUser, MalformedUser},
     ok \in BOOLEAN :
    DeleteUser(p, u, ok)

\* the requests of the clients, made while their User documents exist
ClientBillPayment == Clients \subseteq users /\ BillPayment

\* bill payments, and the deletion of what they record and of their users
NextDeleteUser ==
  \/ Tick
  \/ Deliver
  \/ ClientBillPayment
  \/ AdminDelete
  \/ AdminDeleteUser

SpecDeleteUser == Init /\ [][NextDeleteUser]_vars

\* C21: after any sequence of admin operations (delete-transaction,
\* delete-user, backdate) every Receipt references a live Transaction, by its
\* transactionId or by its reference: no operation removes a Transaction and
\* leaves a Receipt of it behind.
C21_NoOrphanReceipt ==
  \A r \in receipts :
    \E t \in bankTransactions :
      r.transactionId = t.id \/ r.reference = t.reference

\* a user has been deleted with all their transactions, and a Receipt that
\* was linked to the _id of one of them is still stored
C21_Witness ==
  /\ Committed("deleteUser")
  /\ response.user \notin users
  /\ \A t \in bankTransactions : t.userId # response.user
  /\ \E r \in receipts : /\ r.userId = response.user
                         /\ r.transactionId[1] = "_id"

\* ------------------------------- bill payment: POST / of the earlier router
\* The repository holds a second bill-payment router whose POST / takes
\* billerId, amount and reference and asks for no code.  Its validation reads
\* no shared state, so it forms one step with User.findById and the balance
\* check; the biller is not looked up in the catalog.
PayChecks(u, billerId, amount) ==
  IF billerId = "none" \/ amount = 0 THEN "InvalidInput"
  ELSE IF amount <= 0 THEN "InvalidAmount"
  ELSE IF balance[u] < amount THEN "InsufficientFunds"
  ELSE "pass"

PayRead(p, u, billerId, amount, clientRef) ==
  /\ Free(p)
  /\ Cardinality(Recorded("payment")) + Cardinality(Creating("bill"))
       + Cardinality(Creating("pay")) < MaxPayments
  /\ LET outcome == PayChecks(u, billerId, amount)
     IN IF outcome = "pass"
          THEN /\ req' = Begin(p, [Idle EXCEPT
                                     !.pc = "create", !.kind = "pay",
                                     !.user = u, !.amount = amount,
                                     !.clientRef = clientRef,
                                     !.newBalance = balance[u] - amount])
               /\ response' = NoResponse
          ELSE /\ req' = Overlap(p)
               /\ response' = Answer("pay", u, outcome)
  /\ UNCHANGED <<profile, users, deletedTransactions, now, balance, transferOtp,
                 otpStore, bankTransactions, receipts, accountSummary>>

\* createTransaction, first half: BankTransaction.create with the reference
\* of the request; reference is a required path, so a request without one
\* fails validation
PayCreate(p) ==
  /\ At(p, "pay", "create")
  /\ LET r == req[p]
         ref == r.clientRef
     IN IF ref = NoRef \/ ReferenceTaken(ref)
          THEN /\ req' = Finish(p)
               /\ response' = Failure(r, "Failed")
               /\ UNCHANGED bankTransactions
          ELSE /\ bankTransactions' = bankTransactions \cup
                    {NewTransaction(r.user, -r.amount, "payment",
                                    r.newBalance, ref, CurrencyOf[r.user])}
               /\ req' = [req EXCEPT ![p].pc = "serviceReceipt",
                                     ![p].clientRef = NoRef,
                                     ![p].reference = ref,
                                     ![p].transactionId = NewId(ref),
                                     ![p].createdAt = now]
               /\ response' = NoResponse
  /\ UNCHANGED <<profile, users, deletedTransactions, now, balance, transferOtp,
                 otpStore, receipts, accountSummary>>

\* createTransaction, second half: Receipt.create with transactionId set to
\* the reference
PayServiceReceipt(p) ==
  /\ At(p, "pay", "serviceReceipt")
  /\ LET r == req[p]
     IN IF CastsToObjectId(r.reference)
          THEN /\ receipts' = receipts \cup
                    {NewReceipt(ObjectIdOf(r.reference), r.user,
                                -r.amount, "payment", r.newBalance,
                                r.reference, CurrencyOf[r.user],
                                r.createdAt)}
               /\ req' = [req EXCEPT ![p].pc = "receipt",
                                     ![p].createdAt = 0]
               /\ response' = NoResponse
          ELSE /\ req' = Finish(p)
               /\ response' = Failure(r, "Failed")
               /\ UNCHANGED receipts
  /\ UNCHANGED <<profile, users, deletedTransactions, now, balance, transferOtp,
                 otpStore, bankTransactions, accountSummary>>

\* the route's own Receipt.create, linked by transaction._id
PayReceipt(p) ==
  /\ At(p, "pay", "receipt")
  /\ LET r == req[p]
     IN receipts' = receipts \cup
          {NewReceipt(r.transactionId, r.user, -r.amount, "payment",
                      r.newBalance, r.reference, CurrencyOf[r.user], now)}
  /\ req' = [req EXCEPT ![p].pc = "save"]
  /\ response' = NoResponse
  /\ UNCHANGED <<profile, users, deletedTransactions, now, balance, transferOtp,
                 otpStore, bankTransactions, accountSummary>>

\* user.save(): writes the modified path accounts.0.balance
PaySave(p) ==
  /\ At(p, "pay", "save")
  /\ balance' = [balance EXCEPT ![req[p].user] = req[p].newBalance]
  /\ req' = [req EXCEPT ![p].pc = "summary",
                        ![p].written = req[p].newBalance]
  /\ response' = NoResponse
  /\ UNCHANGED <<profile, users, deletedTransactions, now, transferOtp, otpStore,
                 bankTransactions, receipts, accountSummary>>

PaySummary(p) ==
  /\ At(p, "pay", "summary")
  /\ LET r == req[p]
     IN /\ accountSummary' = [accountSummary EXCEPT ![r.user] =
                                SummaryDebit(@, r.amount, CurrencyOf[r.user])]
        /\ response' = Success(r)
  /\ req' = Finish(p)
  /\ UNCHANGED <<profile, users, deletedTransactions, now, balance, transferOtp,
                 otpStore, bankTransactions, receipts>>

\* client references of this route: the 24-digit hex string, one that is no
\* ObjectId, or none
PayRefs == ClientRefs \cup {<<"TXT", 1>>}

PayBill ==
  \/ \E p \in Procs, u \in Clients, in \in BillInputs, ref \in PayRefs :
       PayRead(p, u, in.billerId, in.amount, ref)
  \/ \E p \in Procs : PayCreate(p)
  \/ \E p \in Procs : PayServiceReceipt(p)
  \/ \E p \in Procs : PayReceipt(p)
  \/ \E p \in Procs : PaySave(p)
  \/ \E p \in Procs : PaySummary(p)

\* the two bill-payment routers
NextBill ==
  \/ Tick
  \/ Deliver
  \/ BillPayment
  \/ PayBill

SpecBill == Init /\ [][NextBill]_vars

\* C22: no bill-payment Transaction is committed unless the request that
\* records it has, before any write of its own, verified an OTP challenge
\* that bill-payment initiate issued to its user: the submitted code is the
\* stored one and the challenge has not expired.
C22_PaymentNeedsOtp ==
  [][ /\ \A t \in bankTransactions' \ bankTransactions :
           t.type = "payment"
             => \E p \in Procs : /\ req[p].pc = "create"
                                 /\ req'[p].transactionId = t.id
                                 /\ req[p].otp # NoOtp
                                 /\ req[p].otp.hash = req[p].code
      /\ \A q \in Procs :
           (req'[q].kind = "bill" /\ req[q].otp = NoOtp /\ req'[q].otp # NoOtp)
             => /\ req'[q].otp = otpStore[req'[q].user]
                /\ req'[q].otp.hash = req'[q].code
                /\ req'[q].otp.expires >= now
                /\ UNCHANGED ledger ]_vars

\* a bill payment has committed for a user to whom no challenge was ever
\* issued
C22_Witness ==
  /\ Committed("pay")
  /\ response.otp = NoOtp
  /\ otpStore[response.user] = NoOtp
  /\ \E t \in bankTransactions :
       t.type = "payment" /\ t.userId = response.user
  /\ \E r \in receipts : r.type = "payment"

\* C23: when sending the OTP notification fails during a transfer initiate
\* or a bill-payment initiate, the initiate answers with a failure and the
\* challenge it stored is not pending afterwards.
C23_SendFailureLeavesNoChallenge ==
  [][ /\ \A p \in Procs, c \in Codes :
           InitiateSave(p, c, FALSE)
             => /\ response'.resp # "success"
                /\ transferOtp'[req[p].user] # Challenge(c)
      /\ \A p \in Procs, u \in Clients, in \in BillInputs, c \in Codes :
           (BillInitiate(p, u, in.billerId, in.amount, c, FALSE)
              /\ response'.resp = "Failed")
             => otpStore'[u] # Challenge(c) ]_vars

\* a bill-payment initiate has answered with a failure, which only a failed
\* send produces, and the challenge it stored is pending
C23_Witness ==
  /\ Rejected("billInitiate", "Failed")
  /\ otpStore[response.user] # NoOtp
  /\ otpStore[response.user].expires = now + OtpTtl

\* C24: in every funds movement (transfer execute, bill payment, admin
\* credit) the Transaction is persisted before the balance is changed: a
\* step that changes a balance is taken by a request whose Transaction is
\* already stored.
C24_TransactionBeforeBalance ==
  [][ \A u \in Users :
        balance'[u] # balance[u]
          => \E p \in Procs, t \in bankTransactions :
               /\ req'[p].user = u
               /\ req'[p].written = balance'[u]
               /\ t.id = req'[p].transactionId
               /\ t.userId = u ]_vars

\* an admin credit has raised the balance of an account that has no
\* Transaction at all
C24_Witness ==
  \E p \in Procs :
    /\ req[p].kind = "credit"
    /\ req[p].pc \in {"inc", "create"}
    /\ balance[req[p].user] = req[p].written
    /\ balance[req[p].user] > 0
    /\ bankTransactions = {}

\* C25: when a transfer execute or a bill payment answers with a failure
\* because a step of its commit failed (Receipt creation, balance save,
\* summary update), its earlier writes are rolled back: no Transaction and no
\* Receipt of the request remains.
C25_FailedCommitRolledBack ==
  (response.kind \in {"execute", "bill"} /\ response.resp = "Failed")
    => /\ \A t \in bankTransactions : t.reference # response.reference
       /\ \A r \in receipts : r.reference # response.reference

\* a bill payment has answered 'Payment failed' after its Receipt could not
\* be created, and the Transaction it recorded is stored
C25_Witness ==
  /\ Rejected("bill", "Failed")
  /\ \E t \in bankTransactions : /\ t.reference = response.reference
                                 /\ t.type = "payment"
                                 /\ t.userId = response.user
  /\ \A r \in receipts : r.reference # response.reference

\* --------------------------------------- accountService: getAccountSummary
\* new Date(now.getFullYear(), now.getMonth(), 1): the clock starts inside a
\* month that began at or before its first instant, and the next month
\* begins one millisecond after the lifetime of a challenge issued then
MonthTurn == OtpTtl + 1
StartOfMonth(t) == IF t >= MonthTurn THEN MonthTurn ELSE 0

RECURSIVE SumOf(_, _)
\* $sum over the documents of S of f[document]
SumOf(S, f) ==
  IF S = {} THEN 0
  ELSE LET x == CHOOSE y \in S : TRUE
       IN f[x] + SumOf(S \ {x}, f)

Abs(n) == IF n < 0 THEN -n ELSE n

\* the $match and $group stages: no group when nothing matches
MonthlyTransactions(u, t) ==
  LET matching == {x \in bankTransactions :
                     /\ x.userId = u
                     /\ x.accountNumber = AccountNumberOf[u]
                     /\ x.createdAt >= StartOfMonth(t)}
  IN [matched |-> matching # {},
      totalDeposits |->
        SumOf(matching,
              [x \in matching |-> IF x.type = "deposit" THEN x.amount ELSE 0]),
      totalWithdrawals |->
        SumOf(matching,
              [x \in matching |->
                 IF x.type \in {"withdrawal", "payment", "transfer"}
                   THEN Abs(x.amount) ELSE 0])]

\* AccountSummary.findOne, and AccountSummary.create of a row of zeros when
\* there is none; the document read stays in the handler
SummaryFind(p, u) ==
  /\ Free(p)
  /\ accountSummary' =
       IF accountSummary[u].present THEN accountSummary
       ELSE [accountSummary EXCEPT ![u] = [NoSummary EXCEPT !.present = TRUE]]
  /\ req' = Begin(p, [Idle EXCEPT !.pc = "aggregate", !.kind = "summary",
                                  !.user = u,
                                  !.newBalance =
                                     accountSummary[u].currentBalance])
  /\ response' = NoResponse
  /\ UNCHANGED <<profile, users, deletedTransactions, now, balance, transferOtp,
                 otpStore, bankTransactions, receipts>>

\* BankTransaction.aggregate over the current month; with no group the
\* summary is returned as it was read
SummaryAggregate(p) ==
  /\ At(p, "summary", "aggregate")
  /\ LET r == req[p]
         stats == MonthlyTransactions(r.user, now)
     IN IF stats.matched
          THEN /\ req' = [req EXCEPT ![p].pc = "save", ![p].stats = stats]
               /\ response' = NoResponse
        ELSE /\ req' = Finish(p)
             /\ response' = Success(r)
  /\ UNCHANGED <<profile, users, deletedTransactions, now, balance, transferOtp,
                 otpStore, bankTransactions, receipts, accountSummary>>

\* summary.save(): writes the modified path monthlyStats
SummarySave(p) ==
  /\ At(p, "summary", "save")
  /\ LET r == req[p]
     IN /\ accountSummary' =
             [accountSummary EXCEPT
                ![r.user].totalDeposits = r.stats.totalDeposits,
                ![r.user].totalWithdrawals = r.stats.totalWithdrawals,
                ![r.user].netChange =
                   r.stats.totalDeposits - r.stats.totalWithdrawals]
        /\ response' = Success(r)
  /\ req' = Finish(p)
  /\ UNCHANGED <<profile, users, deletedTransactions, now, balance, transferOtp,
                 otpStore, bankTransactions, receipts>>

SummaryRead ==
  \/ \E p \in Procs, u \in Clients : SummaryFind(p, u)
  \/ \E p \in Procs : SummaryAggregate(p)
  \/ \E p \in Procs : SummarySave(p)

\* a step that answers no request with a failure
NoFailure == response'.resp \in {"none", "success"}

\* Admin credits, summary reads and admin deletions, up to
\* the first request that fails: the behaviours in which every request so
\* far has completed without failure.
NextClean ==
  \/ Tick
  \/ Deliver
  \/ AdminCredit /\ NoFailure
  \/ SummaryRead /\ NoFailure
  \/ AdminDelete /\ NoFailure

SpecClean == Init /\ [][NextClean]_vars

\* the sum of the amounts of the live Transactions of a user's account
LedgerSum(u) ==
  LET live == {t \in bankTransactions :
                 t.userId = u /\ t.accountNumber = AccountNumberOf[u]}
  IN SumOf(live, [t \in live |-> t.amount])

\* C26: in every state with no request in flight, every request so far
\* having completed without failure, AccountSummary.currentBalance of an
\* account equals the sum of the amounts of its live Transactions.
C26_SummaryMatchesLedger ==
  Quiet => \A u \in Users : accountSummary[u].currentBalance = LedgerSum(u)

\* no request is in flight, none has failed, an admin has deleted a credit of
\* 1, and the summary still counts it
C26_Witness ==
  /\ Quiet
  /\ \E d \in deletedTransactions : d.userId = "u1" /\ d.amount = 1
  /\ accountSummary["u1"].currentBalance = LedgerSum("u1") + 1

\* C27: reconcile corrects drift: once getAccountSummary has run with no
\* other request in flight since it began, currentBalance equals the sum of
\* the amounts of all Transactions of the account, whatever the summary held
\* before.
C27_ReconcileCorrectsDrift ==
  (Committed("summary") /\ response.alone)
    => accountSummary[response.user].currentBalance
         = LedgerSum(response.user)

\* a summary read that ran alone has returned, having rewritten the monthly
\* statistics, and the summary still counts a deleted credit
C27_Witness ==
  /\ Committed("summary")
  /\ response.alone
  /\ accountSummary[response.user].currentBalance
       = LedgerSum(response.user) + 1
  /\ response.newBalance = accountSummary[response.user].currentBalance
  /\ \E t \in bankTransactions : t.userId = response.user

\* ------------------------------------- accountService: updateAccountBalance
MaxSummary == 2                \* largest magnitude a summary figure reaches
TransactionTypes == {"deposit", "withdrawal", "transfer", "payment"}
UpdateAmounts == {-1, 0, 1}

\* the update with the outflow left out of netChange
UpdateAccountBalanceNetOfDeposits(s, amount, transactionType) ==
  LET isTransferOrWithdrawal ==
        transactionType \in {"transfer", "withdrawal", "payment"}
  IN [s EXCEPT
        !.present = TRUE,
        !.currentBalance = @ + amount,
        !.availableBalance = @ + amount,
        !.totalDeposits = IF transactionType = "deposit" THEN @ + amount ELSE @,
        !.totalWithdrawals =
           IF isTransferOrWithdrawal THEN @ + Abs(amount) ELSE @,
        !.netChange = IF transactionType = "deposit" THEN @ + amount ELSE @,
        !.lastTransactionDate = now]

\* The $inc and $set of updateAccountBalance applied to a row, or to the row
\* of zeros the upsert inserts.
UpdateAccountBalance(s, amount, transactionType) ==
  LET isTransferOrWithdrawal ==
        transactionType \in {"transfer", "withdrawal", "payment"}
  IN [s EXCEPT
        !.present = TRUE,
        !.currentBalance = @ + amount,
        !.availableBalance = @ + amount,
        !.totalDeposits = IF transactionType = "deposit" THEN @ + amount ELSE @,
        !.totalWithdrawals =
           IF isTransferOrWithdrawal THEN @ + Abs(amount) ELSE @,
        !.netChange = IF transactionType = "deposit" THEN @ + amount
                      ELSE IF isTransferOrWithdrawal THEN @ - Abs(amount)
                      ELSE @,
        !.lastTransactionDate = now]

\* every figure of the row is within the magnitude followed
WithinSummary(s) ==
  \A n \in {s.currentBalance, s.availableBalance, s.totalDeposits,
            s.totalWithdrawals, s.netChange} : Abs(n) <= MaxSummary

\* one call of updateAccountBalance: a single findOneAndUpdate
BalanceUpdate(p, u, amount, transactionType) ==
  /\ Free(p)
  /\ LET updated == UpdateAccountBalance(accountSummary[u], amount,
                                         transactionType)
     IN /\ WithinSummary(updated)
        /\ accountSummary' = [accountSummary EXCEPT ![u] = updated]
  /\ req' = Overlap(p)
  /\ response' = [Answer("update", u, "success") EXCEPT !.amount = amount]
  /\ UNCHANGED <<profile, users, deletedTransactions, now, balance, transferOtp,
                 otpStore, bankTransactions, receipts>>

AccountService ==
  \E p \in Procs, u \in Clients, a \in UpdateAmounts,
     ty \in TransactionTypes :
    BalanceUpdate(p, u, a, ty)

\* calls of the account service and summary reads, on an account that holds
\* its opening credit or nothing
NextService ==
  \/ Tick
  \/ Deliver
  \/ AccountService
  \/ SummaryRead

SpecService == Init /\ [][NextService]_vars

\* C28: updateAccountBalance, inserting the row when there is none, adds the
\* signed amount to currentBalance and to availableBalance, adds the amount
\* to totalDeposits for a deposit and its absolute value to totalWithdrawals
\* for a withdrawal, payment or transfer; and after any sequence of updates
\* and summary reads netChange = totalDeposits - totalWithdrawals.
C28_UpdateKeepsNetChange ==
  /\ [](\A u \in Users :
          accountSummary[u].netChange
            = accountSummary[u].totalDeposits
                - accountSummary[u].totalWithdrawals)
  /\ [][ \A p \in Procs, u \in Clients, a \in UpdateAmounts,
            ty \in TransactionTypes :
           BalanceUpdate(p, u, a, ty)
             => LET old == accountSummary[u]
                    new == accountSummary'[u]
                IN /\ new.present
                   /\ new.currentBalance = old.currentBalance + a
                   /\ new.availableBalance = old.availableBalance + a
                   /\ new.totalDeposits =
                        old.totalDeposits + (IF ty = "deposit" THEN a ELSE 0)
                   /\ new.totalWithdrawals =
                        old.totalWithdrawals
                          + (IF ty = "deposit" THEN 0
                             ELSE IF a < 0 THEN -a ELSE a) ]_vars

\* an update has debited a row whose monthly figures a summary read had set
\* from a stored deposit: both totals are positive and the balance has moved
\* away from the deposits
C28_Witness ==
  /\ Committed("update")
  /\ response.amount = -1
  /\ accountSummary[response.user].totalDeposits > 0
  /\ accountSummary[response.user].totalWithdrawals > 0
  /\ accountSummary[response.user].netChange
       = accountSummary[response.user].totalDeposits
           - accountSummary[response.user].totalWithdrawals
  /\ accountSummary[response.user].currentBalance
       # accountSummary[response.user].netChange

\* Requests that reach the step recording their Transaction: well-formed
\* transfers and bill payments that submit the code they were sent.
RecordingInputs == {in \in TransferInputs :
                      /\ in.amount \in Amounts
                      /\ in.shape.transferType = "domestic"
                      /\ in.shape.toAccount # "none"}

RecordingTransfers ==
  \/ \E p \in Procs, u \in Clients, in \in RecordingInputs :
       InitiateRead(p, u, in.shape, in.amount)
  \/ \E p \in Procs, c \in Codes : InitiateSave(p, c, TRUE)
  \/ \E p \in Procs, u \in Clients, c \in Codes, in \in RecordingInputs :
       ExecuteRead(p, u, c, in.shape, in.amount)
  \/ \E p \in Procs : ExecuteExpiredSave(p)
  \/ \E p \in Procs : ExecuteCreate(p)
  \/ \E p \in Procs : ExecuteReceipt(p)
  \/ \E p \in Procs : ExecuteSave(p)
  \/ \E p \in Procs : ExecuteSummary(p)
  \/ \E p \in Procs : ExecuteCatch(p)

RecordingBills ==
  \/ \E p \in Procs, u \in Clients, c \in Codes :
       BillInitiate(p, u, "1", 1, c, TRUE)
  \/ \E p \in Procs, u \in Clients, ref \in ClientRefs, c \in Codes :
       BillVerify(p, u, "1", 1, ref, c)
  \/ \E p \in Procs : BillRead(p)
  \/ \E p \in Procs : BillCreate(p)
  \/ \E p \in Procs : BillServiceReceipt(p)
  \/ \E p \in Procs : BillReceipt(p)
  \/ \E p \in Procs : BillSave(p)
  \/ \E p \in Procs : BillSummary(p)
  \/ \E p \in Procs, u \in Clients, ref \in ClientRefs :
       PayRead(p, u, "1", 1, ref)
  \/ \E p \in Procs : PayCreate(p)
  \/ \E p \in Procs : PayServiceReceipt(p)
  \/ \E p \in Procs : PayReceipt(p)
  \/ \E p \in Procs : PaySave(p)
  \/ \E p \in Procs : PaySummary(p)

\* every route that debits an account: the transfer and both bill-payment
\* routers
NextDebits ==
  \/ Tick
  \/ Deliver
  \/ RecordingTransfers
  \/ RecordingBills

SpecDebits == Init /\ [][NextDebits]_vars

\* the reference the request in slot p gives the Transaction it records
ReferenceOf(p) ==
  IF req[p].kind = "execute" THEN <<"TRX", now>>
  ELSE IF req[p].kind = "bill" /\ req[p].clientRef = NoRef
    THEN <<"BILL", now>>
  ELSE req[p].clientRef

\* C29: when a transfer or a bill payment tries to record a Transaction
\* whose reference a stored Transaction holds, the request ends with an
\* error: the step and the error path after it create no Transaction and no
\* Receipt and leave balance and summary as they are.
C29_DuplicateReferenceRejected ==
  [][ \A p \in Procs :
        /\ (/\ req[p].kind \in {"execute", "bill", "pay"}
            /\ req[p].pc = "create"
            /\ req'[p].pc # "create"
            /\ \E t \in bankTransactions : t.reference = ReferenceOf(p))
             => /\ UNCHANGED ledger
                /\ \/ req'[p].pc = "catch"
                   \/ /\ req'[p].pc = "idle"
                      /\ response'.kind = req[p].kind
                      /\ response'.user = req[p].user
                      /\ response'.resp = "Failed"
        /\ (req[p].pc = "catch" /\ req'[p].pc # "catch")
             => /\ UNCHANGED ledger
                /\ req'[p].pc = "idle"
                /\ response'.kind = req[p].kind
                /\ response'.user = req[p].user
                /\ response'.resp = "Failed" ]_vars

\* a bill payment has been refused the client reference that the payment of
\* another request holds, and has recorded nothing
C29_Witness ==
  /\ Rejected("bill", "Failed")
  /\ response.reference = NoRef
  /\ \E t \in bankTransactions : t.reference[1] = "HEX" /\ t.type = "payment"
  /\ Cardinality({t \in bankTransactions : t.type = "payment"}) = 1

\* --------------------------------------------- the amount of a request body
\* What a client may send as amount: a JSON number, a string that begins
\* with a number and goes on with other characters ("1abc"), a string with
\* no number at its head ("abc"), or nothing.
RawAmounts ==
  {[json |-> "number", leading |-> n] : n \in Amounts \cup BadAmounts}
    \cup {[json |-> "string", leading |-> n] : n \in Amounts}
    \cup {[json |-> "letters", leading |-> 0],
          [json |-> "missing", leading |-> 0]}

\* !amount
Falsy(raw) ==
  raw.json = "missing" \/ (raw.json = "number" /\ raw.leading = 0)

\* isNaN(parseFloat(amount)): parseFloat reads the longest numeric prefix and
\* drops what follows it
ParsesToNaN(raw) == raw.json \in {"letters", "missing"}

\* The amount as the checks of the handlers see it.  Each handler tests
\* !amount first and then isNaN(numericAmount) || numericAmount <= 0 in one
\* branch, so NaN is passed on as a value of that branch.
NumericAmount(raw) ==
  IF Falsy(raw) THEN 0
  ELSE IF ParsesToNaN(raw) THEN -1
  ELSE raw.leading

RawShape == [toAccount |-> "EXT9", transferType |-> "domestic",
             intlFields |-> FALSE]

\* the four routes that move money out, given request bodies as sent
RawTransfers ==
  \/ \E p \in Procs, u \in Clients, raw \in RawAmounts :
       InitiateRead(p, u, RawShape, NumericAmount(raw))
  \/ \E p \in Procs, c \in Codes : InitiateSave(p, c, TRUE)
  \/ \E p \in Procs, u \in Clients, c \in Codes, raw \in RawAmounts :
       ExecuteRead(p, u, c, RawShape, NumericAmount(raw))
  \/ \E p \in Procs : ExecuteExpiredSave(p)
  \/ \E p \in Procs : ExecuteCreate(p)
  \/ \E p \in Procs : ExecuteReceipt(p)
  \/ \E p \in Procs : ExecuteSave(p)
  \/ \E p \in Procs : ExecuteSummary(p)
  \/ \E p \in Procs : ExecuteCatch(p)

RawBills ==
  \/ \E p \in Procs, u \in Clients, raw \in RawAmounts, c \in Codes :
       BillInitiate(p, u, "1", NumericAmount(raw), c, TRUE)
  \/ \E p \in Procs, u \in Clients, raw \in RawAmounts, ref \in ClientRefs,
        c \in Codes :
       BillVerify(p, u, "1", NumericAmount(raw), ref, c)
  \/ \E p \in Procs : BillRead(p)
  \/ \E p \in Procs : BillCreate(p)
  \/ \E p \in Procs : BillServiceReceipt(p)
  \/ \E p \in Procs : BillReceipt(p)
  \/ \E p \in Procs : BillSave(p)
  \/ \E p \in Procs : BillSummary(p)

NextRaw ==
  \/ Tick
  \/ Deliver
  \/ RawTransfers
  \/ RawBills

SpecRaw == Init /\ [][NextRaw]_vars

\* an amount that is missing, not a number, zero or negative
Unacceptable(raw) == raw.json # "number" \/ raw.leading <= 0

\* C30: every outbound-movement request (transfer initiate and execute, bill
\* initiate and execute) whose amount is missing, not a number, zero or
\* negative is rejected before any write: it stores no challenge and does
\* not go on to its commit; and every Transaction of type transfer or
\* payment has a strictly negative amount.
C30_BadAmountRejected ==
  /\ [](\A t \in bankTransactions :
          t.type \in {"transfer", "payment"} => t.amount < 0)
  /\ [][ \A p \in Procs, u \in Clients, c \in Codes, ref \in ClientRefs,
            raw \in {x \in RawAmounts : Unacceptable(x)} :
           /\ InitiateRead(p, u, RawShape, NumericAmount(raw))
                => /\ req'[p].pc = "idle"
                   /\ response'.resp \notin {"none", "success"}
           /\ ExecuteRead(p, u, c, RawShape, NumericAmount(raw))
                => req'[p].pc # "create"
           /\ BillInitiate(p, u, "1", NumericAmount(raw), c, TRUE)
                => /\ response'.resp \notin {"none", "success"}
                   /\ UNCHANGED otpStore
           /\ BillVerify(p, u, "1", NumericAmount(raw), ref, c)
                => /\ req'[p].pc = "idle"
                   /\ response'.resp \notin {"none", "success"}
                   /\ UNCHANGED otpStore ]_vars

\* C31: no committed debit is lost: in every state where no request is in
\* flight, the stored balance of an account equals its balance at the start
\* plus the sum of the signed amounts of the Transactions recorded for it
\* since (the opening credit being the Transaction of the balance at the
\* start), for every interleaving of transfers, bill payments and credits.
C31_NoLostDebit ==
  Quiet => \A u \in Users : balance[u] = LedgerSum(u)

\* two transfers of 1 have both committed on an account that held 1; no
\* request is in flight and the stored balance is 0, not -1
C31_Witness ==
  /\ Quiet
  /\ balance["u1"] = 0
  /\ Cardinality({t \in bankTransactions :
                    t.type = "transfer" /\ t.amount = -1
                      /\ t.balanceAfter = 0}) = 2
  /\ LedgerSum("u1") = -1
  /\ accountSummary["u1"].totalWithdrawals = 2

\* ------------------------------------------------ users: POST /set-pin
Pins == {"1234", "0000"}
\* what a request submits as pin: a PIN, a string that is no 4-digit PIN, or
\* nothing
PinInputs == Pins \cup {"12", "none"}

\* validation, the hash, and User.findByIdAndUpdate of the three PIN fields
SetPin(p, u, pin) ==
  /\ Free(p)
  /\ IF pin \notin Pins
       THEN /\ response' = Answer("setPin", u, "InvalidInput")
            /\ UNCHANGED profile
     ELSE /\ profile' = [profile EXCEPT ![u].transferPinSet = TRUE,
                                        ![u].transferPin = pin]
          /\ response' = Answer("setPin", u, "success")
  /\ req' = Overlap(p)
  /\ UNCHANGED <<users, deletedTransactions, now, balance, transferOtp,
                 otpStore, bankTransactions, receipts, accountSummary>>

\* ------------------------- transfer: POST /initiate, with the PIN block
\* the PIN block with the comparison left out
PinChecksAnyPin(u, pin) ==
  IF ~profile[u].transferPinSet THEN "pass"
  ELSE IF pin = "none" THEN "PinRequired"
  ELSE IF profile[u].transferPin = "none" THEN "PinNotSet"
  ELSE "pass"

\* User.findById(...).select('+transferPin transferPinSet') and the PIN block
PinChecks(u, pin) ==
  IF ~profile[u].transferPinSet THEN "pass"
  ELSE IF pin = "none" THEN "PinRequired"
  ELSE IF profile[u].transferPin = "none" THEN "PinNotSet"
  ELSE IF ~BcryptCompare(pin, profile[u].transferPin) THEN "InvalidPin"
  ELSE "pass"

\* the first read of the handler and the PIN block
PinRead(p, u, pin, shape, amount) ==
  /\ Free(p)
  /\ LET outcome == PinChecks(u, pin)
     IN IF outcome = "pass"
          THEN /\ req' = Begin(p, [Idle EXCEPT !.pc = "checks",
                                               !.kind = "initiate",
                                               !.user = u, !.pin = pin,
                                               !.shape = shape,
                                               !.amount = amount])
               /\ response' = NoResponse
          ELSE /\ req' = Overlap(p)
               /\ response' = Answer("initiate", u, outcome)
  /\ UNCHANGED <<profile, users, deletedTransactions, now, balance,
                 transferOtp, otpStore, bankTransactions, receipts,
                 accountSummary>>

\* the validation of the body, the second read of the user, the balance
\* check and the lookup of the recipient
PinInitiateChecks(p) ==
  /\ At(p, "initiate", "checks")
  /\ LET r == req[p]
         outcome == InitiateChecks(r.user, r.shape, r.amount)
     IN IF outcome = "pass"
          THEN /\ req' = [req EXCEPT ![p].pc = "otpSave"]
               /\ response' = NoResponse
          ELSE /\ req' = Finish(p)
               /\ response' = Answer("initiate", r.user, outcome)
  /\ UNCHANGED <<profile, users, deletedTransactions, now, balance,
                 transferOtp, otpStore, bankTransactions, receipts,
                 accountSummary>>

PinInitiate ==
  \/ \E p \in Procs, u \in Clients, pin \in PinInputs, in \in TransferInputs :
       PinRead(p, u, pin, in.shape, in.amount)
  \/ \E p \in Procs : PinInitiateChecks(p)
  \/ \E p \in Procs, c \in TwoCodes, sent \in BOOLEAN : InitiateSave(p, c, sent)

UserPin == \E p \in Procs, u \in Clients, pin \in PinInputs : SetPin(p, u, pin)

\* initiations by a user who may set a transfer PIN
NextPin ==
  \/ Tick
  \/ Deliver
  \/ UserPin
  \/ PinInitiate

SpecPin == Init /\ [][NextPin]_vars

\* C32: a transfer initiate stores or overwrites the OTP challenge only in its
\* last step, which a request reaches only after its PIN matched the PIN on
\* file (when one is set) and then its destination, amount, international
\* fields, balance and recipient passed; a step that rejects an initiate
\* leaves every pending challenge exactly as it was.
C32_ChallengeAfterChecks ==
  [][ /\ \A p \in Procs :
           /\ (req'[p].pc = "checks" /\ req[p].pc # "checks")
                => LET f == profile[req'[p].user]
                   IN f.transferPinSet
                        => /\ req'[p].pin # "none"
                           /\ req'[p].pin = f.transferPin
           /\ (req'[p].pc = "otpSave" /\ req[p].pc # "otpSave")
                => /\ req[p].pc = "checks"
                   /\ req[p].shape.toAccount # "none"
                   /\ req[p].amount > 0
                   /\ (req[p].shape.transferType = "international"
                         => req[p].shape.intlFields)
                   /\ balance[req[p].user] >= req[p].amount
                   /\ (req[p].shape.transferType = "internal"
                         => req[p].shape.toAccount \in AccountNumbers)
      /\ \A u \in Users :
           transferOtp'[u] # transferOtp[u]
             => /\ \E p \in Procs : /\ req[p].kind = "initiate"
                                    /\ req[p].pc = "otpSave"
                                    /\ req[p].user = u
                                    /\ req'[p].pc = "idle"
                /\ Committed("initiate")'
      /\ (response'.kind = "initiate"
            /\ response'.resp \notin {"none", "success"})
           => transferOtp' = transferOtp ]_vars

\* a rejection for a wrong PIN while a challenge is pending, after a
\* PIN-checked initiate has stored it
C32_Witness ==
  /\ Rejected("initiate", "InvalidPin")
  /\ profile["u1"].transferPinSet
  /\ transferOtp["u1"] # NoOtp
  /\ \E p \in Procs : req[p].kind = "initiate" /\ req[p].pc = "otpSave"

\* ------------------------- transfers whose details differ between the calls
\* two transfers that differ in amount, recipient and type, and a malformed one
IssueInputs ==
  {[shape |-> [toAccount |-> "ACC2", transferType |-> "internal",
               intlFields |-> FALSE], amount |-> 1],
   [shape |-> [toAccount |-> "EXT9", transferType |-> "international",
               intlFields |-> TRUE], amount |-> 2],
   [shape |-> [toAccount |-> "none", transferType |-> "domestic",
               intlFields |-> FALSE], amount |-> 1]}

IssueInitiate ==
  \/ \E p \in Procs, u \in Clients, in \in IssueInputs :
       PinRead(p, u, "none", in.shape, in.amount)
  \/ \E p \in Procs : PinInitiateChecks(p)
  \/ \E p \in Procs, c \in Codes, sent \in BOOLEAN : InitiateSave(p, c, sent)

IssueExecute ==
  \/ \E p \in Procs, u \in Clients, c \in Guesses, in \in IssueInputs :
       ExecuteRead(p, u, c, in.shape, in.amount)
  \/ \E p \in Procs : ExecuteExpiredSave(p)
  \/ \E p \in Procs : ExecuteCreate(p)
  \/ \E p \in Procs : ExecuteReceipt(p)
  \/ \E p \in Procs : ExecuteSave(p)
  \/ \E p \in Procs : ExecuteSummary(p)
  \/ \E p \in Procs : ExecuteCatch(p)

NextIssue ==
  \/ Tick
  \/ Deliver
  \/ IssueInitiate
  \/ IssueExecute

SpecIssue == Init /\ [][NextIssue]_vars

\* C33: the challenge is not bound to the transfer it was issued for: an
\* execute goes on to commit exactly when the submitted code matches the
\* pending, unexpired challenge and the re-submitted destination, amount and
\* type pass against the balance of that moment, whatever amount, recipient
\* and type the initiate was called with.
C33_ChallengeUnbound ==
  [][ \A p \in Procs, u \in Clients, c \in Guesses, in \in IssueInputs :
        ExecuteRead(p, u, c, in.shape, in.amount)
          => (req'[p].pc = "create"
                <=> /\ c # "none"
                    /\ transferOtp[u] # NoOtp
                    /\ now <= transferOtp[u].expires
                    /\ c = transferOtp[u].hash
                    /\ in.shape.toAccount # "none"
                    /\ in.amount > 0
                    /\ (in.shape.transferType = "international"
                          => in.shape.intlFields)
                    /\ balance[u] >= in.amount
                    /\ (in.shape.transferType = "internal"
                          => in.shape.toAccount \in AccountNumbers)) ]_vars

\* a committed international transfer of 2 to EXT9 under the code issued for
\* an internal transfer of 1 to ACC2
C33_Witness ==
  /\ Committed("execute")
  /\ response.amount = 2
  /\ profile["u1"].issuedFor =
       [shape |-> [toAccount |-> "ACC2", transferType |-> "internal",
                   intlFields |-> FALSE], amount |-> 1]
  /\ \E t \in bankTransactions : t.type = "transfer" /\ t.amount = -2
  /\ balance["u1"] = 0

\* ------------------------- records and the two admin corrections of them
\* well-formed payments through the router without OTP
RecordedPayments ==
  \/ \E p \in Procs, u \in Clients : PayRead(p, u, "1", 1, <<"HEX", 1>>)
  \/ \E p \in Procs : PayCreate(p)
  \/ \E p \in Procs : PayServiceReceipt(p)
  \/ \E p \in Procs : PayReceipt(p)
  \/ \E p \in Procs : PaySave(p)
  \/ \E p \in Procs : PaySummary(p)

NextRecords ==
  \/ Tick
  \/ Deliver
  \/ RecordedPayments
  \/ AdminBackdate
  \/ AdminDelete

SpecRecords == Init /\ [][NextRecords]_vars

\* C34: an existing Transaction changes only through a committed admin
\* backdate, and then only in createdAt, originalDate, lastModifiedBy and
\* modificationHistory (owner, account number, amount, type, balanceAfter,
\* reference and status stay as created), and it disappears only through a
\* committed admin deletion; an existing Receipt changes only in its
\* transactionDate and only through a committed backdate, and disappears only
\* with the deletion of its Transaction.
C34_RecordsImmutable ==
  [][ /\ \A t \in bankTransactions :
           \/ t \in bankTransactions'
           \/ /\ Committed("backdate")'
              /\ \E n \in bankTransactions' :
                   /\ n.id = t.id
                   /\ n = [t EXCEPT
                             !.createdAt = n.createdAt,
                             !.originalDate = n.originalDate,
                             !.lastModifiedBy = n.lastModifiedBy,
                             !.modificationHistory = n.modificationHistory]
           \/ /\ Committed("delete")'
              /\ \A n \in bankTransactions' : n.id # t.id
      /\ \A x \in receipts :
           \/ x \in receipts'
           \/ /\ Committed("backdate")'
              /\ \E y \in receipts' :
                   y = [x EXCEPT !.transactionDate = y.transactionDate]
           \/ /\ Committed("delete")'
              /\ \A y \in receipts' : y.transactionId # x.transactionId
              /\ \A n \in bankTransactions' : n.id # x.transactionId ]_vars

\* a committed backdate has moved a Transaction and its Receipt to an earlier
\* date, the rest of both as they were created
C34_Witness ==
  /\ Committed("backdate")
  /\ \E t \in bankTransactions :
       /\ t.modificationHistory # <<>>
       /\ t.createdAt # t.originalDate
       /\ t.lastModifiedBy \in Admins
       /\ t.status = "completed"
       /\ \E x \in receipts : /\ x.transactionId = t.id
                              /\ x.transactionDate = t.createdAt
                              /\ x.amount = t.amount

\* ------------------------------------------------ users: PUT /:userId
\* the keys of a request body: a profile field, the accounts array, and the
\* path of the balance inside the first account
UpdateKeys == {"name", "accounts", "accounts.0.balance"}
\* the keys the handler deletes from the body before the update
RemovedKeys == {"password", "isAdmin", "accounts", "cryptoWallets", "cards"}

\* User.findById, the check of the caller, the five deletes and
\* User.findByIdAndUpdate(userId, updates), which sets every key that is left,
\* a dotted path as the nested field it names
ProfileUpdate(p, caller, userId, key, value) ==
  /\ Free(p)
  /\ IF userId \notin users
       THEN /\ response' = Answer("update", userId, "NotFound")
            /\ UNCHANGED balance
     ELSE IF caller # userId
       THEN /\ response' = Answer("update", userId, "Forbidden")
            /\ UNCHANGED balance
     ELSE /\ balance' = IF key \notin RemovedKeys
                           /\ key = "accounts.0.balance"
                          THEN [balance EXCEPT ![userId] = value]
                        ELSE balance
          /\ response' = Answer("update", userId, "success")
  /\ req' = Overlap(p)
  /\ UNCHANGED <<profile, users, deletedTransactions, now, transferOtp,
                 otpStore, bankTransactions, receipts, accountSummary>>

UserUpdate ==
  \E p \in Procs, caller \in Clients, u \in Users, key \in UpdateKeys,
     value \in 0..MaxInitBalance :
    ProfileUpdate(p, caller, u, key, value)

\* transfers and profile updates
NextProfile ==
  \/ Tick
  \/ Deliver
  \/ TransferInitiate
  \/ TransferExecute
  \/ UserUpdate

SpecProfile == Init /\ [][NextProfile]_vars

\* C35: a balance changes only in the step that saves the balance of a
\* transfer execute or of a bill payment, or in the increment of an admin
\* credit: initiates, rejected requests and profile updates leave every
\* balance unchanged.
C35_BalanceWriters ==
  [][ balance' # balance
        => \E p \in Procs :
             \/ ExecuteSave(p)
             \/ BillSave(p)
             \/ PaySave(p)
             \/ \E u \in Users, a \in CreditInputs : CreditInc(p, u, a) ]_vars

\* a profile update has set the balance of an account that never held funds
\* and has recorded no transaction
C35_Witness ==
  /\ Committed("update")
  /\ balance["u1"] = MaxInitBalance
  /\ bankTransactions = {}
  /\ accountSummary["u1"] = NoSummary

\* ------------------------------------ transfers inside the bank only
\* internal transfers: to the account of the other user, and to an account
\* number no user holds
InternalInputs == {in \in TransferInputs :
                     /\ in.shape.transferType = "internal"
                     /\ in.amount \in Amounts}

InternalTransfers ==
  \/ \E p \in Procs, u \in Clients, in \in InternalInputs :
       InitiateRead(p, u, in.shape, in.amount)
  \/ \E p \in Procs, c \in Codes, sent \in BOOLEAN : InitiateSave(p, c, sent)
  \/ \E p \in Procs, u \in Clients, c \in Guesses, in \in InternalInputs :
       ExecuteRead(p, u, c, in.shape, in.amount)
  \/ \E p \in Procs : ExecuteExpiredSave(p)
  \/ \E p \in Procs : ExecuteCreate(p)
  \/ \E p \in Procs : ExecuteReceipt(p)
  \/ \E p \in Procs : ExecuteSave(p)
  \/ \E p \in Procs : ExecuteSummary(p)
  \/ \E p \in Procs : ExecuteCatch(p)

NextInternal ==
  \/ Tick
  \/ Deliver
  \/ InternalTransfers

SpecInternal == Init /\ [][NextInternal]_vars

\* everything the bank holds for a user other than the sender
HeldFor(v) ==
  <<balance[v], accountSummary[v],
    {t \in bankTransactions : t.userId = v},
    {x \in receipts : x.userId = v}>>

\* C36: an internal transfer debits the sender only: no step of the execute
\* changes the balance, the Transactions, the Receipts or the AccountSummary
\* of any other user, the recipient included, and the step that saves the
\* balance lowers the sum of all balances by the amount of the transfer.
C36_SenderOnly ==
  [][ \A p \in Procs :
        (req[p].kind = "execute" /\ req'[p] # req[p])
          => /\ \A v \in Users \ {req[p].user} : HeldFor(v)' = HeldFor(v)
             /\ ExecuteSave(p)
                  => SumOf(Users, balance')
                       = SumOf(Users, balance) - req[p].amount ]_vars

\* the frame alone: no step of an execute changes what is held for another
\* user
C36_RecipientUntouched ==
  [][ \A p \in Procs :
        (req[p].kind = "execute" /\ req'[p] # req[p])
          => \A v \in Users \ {req[p].user} : HeldFor(v)' = HeldFor(v) ]_vars

\* an internal transfer to ACC2 has committed and nothing is held for the
\* holder of ACC2
C36_Witness ==
  /\ Committed("execute")
  /\ response.amount = 1
  /\ \E t \in bankTransactions : t.type = "transfer" /\ t.userId = "u1"
  /\ HeldFor("u2") = <<0, NoSummary, {}, {}>>
  /\ AccountNumberOf["u2"] = "ACC2"

\* C37: an admin credit never lowers a balance and never makes it negative:
\* every deposit Transaction has a strictly positive amount, and a credit of
\* a zero or negative amount is rejected in its first step with the balance
\* unchanged.
C37_CreditNeverLowers ==
  /\ [](\A t \in bankTransactions : t.type = "deposit" => t.amount > 0)
  /\ [][ \A p \in Procs, u \in Users, a \in CreditInputs :
           CreditInc(p, u, a)
             => /\ balance'[u] >= balance[u]
                /\ balance'[u] >= 0
                /\ a <= 0 => /\ Rejected("credit", "InvalidInput")'
                             /\ balance' = balance ]_vars

\* a credit of -1 has committed on an empty account: the balance is -1 and a
\* deposit of -1 is on the ledger
C37_Witness ==
  /\ Committed("credit")
  /\ response.amount = -1
  /\ balance["u1"] = -1
  /\ \E t \in bankTransactions : /\ t.type = "deposit"
                                 /\ t.amount = -1
                                 /\ t.userId = "u1"

\* ------------------------------------------- admin: POST /block-user
\* validation and User.findByIdAndUpdate of the status; "none" is a body
\* without userId
BlockUser(p, userId, block) ==
  /\ Free(p)
  /\ IF userId = "none"
       THEN /\ response' = Answer("block", userId, "InvalidInput")
            /\ UNCHANGED profile
     ELSE IF userId \notin users
       THEN /\ response' = Answer("block", userId, "NotFound")
            /\ UNCHANGED profile
     ELSE /\ profile' = [profile EXCEPT ![userId].status =
                           IF block THEN "blocked" ELSE "active"]
          /\ response' = Answer("block", userId, "success")
  /\ req' = Overlap(p)
  /\ UNCHANGED <<users, deletedTransactions, now, balance, transferOtp,
                 otpStore, bankTransactions, receipts, accountSummary>>

AdminBlock ==
  \E p \in Procs, u \in Clients \cup {UnknownUser, "none"}, block \in BOOLEAN :
    BlockUser(p, u, block)

\* The middleware transactionAuth: what it answers for a request of user u.
\* No router of the transfer or bill-payment routes mounts it; they mount
\* auth alone.
TransactionAuth(u) ==
  IF u \notin users THEN "Unauthenticated"
  ELSE IF profile[u].status = "blocked" THEN "AccountBlocked"
  ELSE "pass"

\* well-formed bill payments through the router with OTP
BlockBills ==
  \/ \E p \in Procs, u \in Clients, c \in Codes :
       BillInitiate(p, u, "1", 1, c, TRUE)
  \/ \E p \in Procs, u \in Clients, c \in Codes :
       BillVerify(p, u, "1", 1, <<"HEX", 1>>, c)
  \/ \E p \in Procs : BillRead(p)
  \/ \E p \in Procs : BillCreate(p)
  \/ \E p \in Procs : BillServiceReceipt(p)
  \/ \E p \in Procs : BillReceipt(p)
  \/ \E p \in Procs : BillSave(p)
  \/ \E p \in Procs : BillSummary(p)

\* the routes that debit an account, and the blocking of its holder
NextBlock ==
  \/ Tick
  \/ Deliver
  \/ RecordingTransfers
  \/ BlockBills
  \/ AdminBlock

SpecBlock == Init /\ [][NextBlock]_vars

\* C38: a blocked user cannot move funds: a transfer initiate, a transfer
\* execute, a bill-payment initiate or a bill payment that a user sends while
\* blocked goes no further than its first step, stores no challenge, and is
\* answered with the account-blocked error.
C38_BlockedCannotMove ==
  [][ /\ \A p \in Procs :
           (req[p].pc = "idle" /\ req'[p].pc # "idle"
              /\ req'[p].kind \in {"initiate", "execute", "bill"})
             => TransactionAuth(req'[p].user) # "AccountBlocked"
      /\ (/\ response'.kind \in {"initiate", "execute", "billInitiate", "bill"}
          /\ \A q \in Procs : req[q].pc # "idle" => req'[q].pc # "idle"
          /\ TransactionAuth(response'.user) = "AccountBlocked")
           => /\ response'.resp = "AccountBlocked"
              /\ UNCHANGED <<transferOtp, otpStore, ledger>> ]_vars

\* a transfer that began and committed while its sender was blocked
C38_Witness ==
  /\ Committed("execute")
  /\ response.alone
  /\ profile["u1"].status = "blocked"
  /\ TransactionAuth("u1") = "AccountBlocked"
  /\ \E t \in bankTransactions : t.type = "transfer" /\ t.userId = "u1"
====
